---- MODULE Spec2Model ----
(***************************************************************************)
(* The level-triggered reconciliation engine of kcp (work queue, worker    *)
(* pool, event bridge) and its consumers: the logical-cluster deletion     *)
(* controller, the kubequota logical-cluster deletion monitor and the      *)
(* syncer endpoints controller.                                            *)
(***************************************************************************)
EXTENDS Integers, Sequences, FiniteSets, TLC

VARIABLES
    ctl,        \* which controller this queue and worker pool belong to
    numThreads, \* the number of workers Start is asked for
    q,          \* the rate-limiting work queue of the controller
    pc,         \* pc[w]: position of worker w in processNextWorkItem
    wkey,       \* wkey[w]: the key worker w got from its last Get()
    loc,        \* loc[w]: locals of the reconcile run by worker w
    calls,      \* calls[w]: the calls worker w made since its last Get()
    dones,      \* dones[w]: the Done calls of worker w since its last Get()
    phase,      \* where Start is: "new", "running", "returned"
    store,      \* store[o]: the logical cluster o as persisted
    cache,      \* cache[o]: the logical cluster o as the lister sees it
    owner,      \* owner[o]: the owner object of o on its home shard
    deleter,    \* deleter[o]: what the deleter returns for o
    stopped,    \* cluster names stopFunc was called with (kubequota)
    part,       \* the arguments and the result of a call of partition
    errs,       \* the errors enqueue has handed to runtime.HandleError
    front       \* the shard's external URL now, and the URL the front-proxy
                \* client of the deletion controller is bound to

vars == <<ctl, numThreads, q, pc, wkey, loc, calls, dones, phase, store, cache, owner, deleter, stopped, part, errs, front>>

-----------------------------------------------------------------------------
(* Bounds of the model *)

MaxFailures == 2    \* failures of one key up to which the backoff grows
MaxEstimate == 1    \* largest estimate the deleter reports as content drains
MaxWaitEstimate == 9    \* largest estimate the wait is computed for
MaxFinalizers == 3    \* longest finalizer list the removal is applied to
MaxShards == 2    \* longest list of arbitrary shards partition is applied to
MaxErrs == 1    \* errors of enqueue counted

Workers == {"w1", "w2"}
Controllers == {"lcd", "quota", "endpoints"}
Objs == {"o1", "o2", "oBad"}

\* the URLs the shard address resolver returns
URLs == {"u1", "u2"}

\* the controller as constructed: dynamicFrontProxyClient is not set
NoClient == [url |-> "u1", client |-> ""]

\* no call of partition
NoPartition == [at |-> "none"]

-----------------------------------------------------------------------------
(* partition of the partition-set reconciler: the label selectors of the   *)
(* partitions of a list of shards along the dimension labels. A shard is   *)
(* its label map, a function from the labels it carries to their values.   *)

\* the label names of the model, in the order of sort.Strings
LabelNames == <<"az", "cloud", "doesnotexist", "environment", "region">>

Rank(l) == CHOOSE i \in 1..Len(LabelNames) : LabelNames[i] = l

\* the values a label takes on a shard
LabelValues(l) ==
    CASE l = "region" -> {"Europe", "Asia"}
      [] l = "cloud" -> {"Azure", "AWS"}
      [] l = "environment" -> {"prod"}
      [] OTHER -> {}

\* insertion of l into the sorted list ls
RECURSIVE Insert(_, _)
Insert(l, ls) ==
    IF ls = <<>> THEN <<l>>
    ELSE IF Rank(l) <= Rank(Head(ls)) THEN <<l>> \o ls
    ELSE <<Head(ls)>> \o Insert(l, Tail(ls))

\* sort.Strings on a copy of the dimensions
RECURSIVE SortStrings(_)
SortStrings(ls) == IF ls = <<>> THEN <<>> ELSE Insert(Head(ls), SortStrings(Tail(ls)))

\* the key that names labels only, whatever their values
PartitionKeyLabelsOnly(sh, labels) ==
    SelectSeq(labels, LAMBDA l : l \in DOMAIN sh)

\* the key of a shard's partition: label=value of every dimension label the
\* shard carries, in the sorted order
RECURSIVE PartitionKey(_, _)
PartitionKey(sh, labels) ==
    IF labels = <<>> THEN <<>>
    ELSE (IF Head(labels) \in DOMAIN sh THEN <<<<Head(labels), sh[Head(labels)]>>>> ELSE <<>>)
         \o PartitionKey(sh, Tail(labels))

\* the match labels without the labels of the shard selector
MatchLabelsWithoutSelector(sh, labels, sel) ==
    LET carried == {labels[i] : i \in 1..Len(labels)} \cap DOMAIN sh
    IN  [l \in carried |-> sh[l]]

\* the match labels of a shard's partition: the dimension labels the shard
\* carries with its values, and the labels of the shard selector
MatchLabels(sh, labels, sel) ==
    LET carried == {labels[i] : i \in 1..Len(labels)} \cap DOMAIN sh
    IN  [l \in carried \cup DOMAIN sel |-> IF l \in DOMAIN sel THEN sel[l] ELSE sh[l]]

\* matchLabelsMap[key] = matchLabels
Put(m, k, v) == [x \in DOMAIN m \cup {k} |-> IF x = k THEN v ELSE m[x]]

\* the loop over the shards: a shard that carries none of the dimension
\* labels adds nothing
RECURSIVE PartitionLoop(_, _, _, _)
PartitionLoop(shards, labels, sel, m) ==
    IF shards = <<>> THEN m
    ELSE LET sh == Head(shards)
             key == PartitionKey(sh, labels)
         IN  PartitionLoop(Tail(shards), labels, sel,
                           IF key = <<>> THEN m
                           ELSE Put(m, key, MatchLabels(sh, labels, sel)))

\* partition(shards, dimensions, shardSelectorLabels)
partition(shards, dimensions, sel) ==
    PartitionLoop(shards, SortStrings(dimensions), sel, <<>>)

-----------------------------------------------------------------------------
(* Reconcile keys: a key is the sequence of the pieces of its string, the  *)
(* separators "|" and "/" being pieces of their own.                       *)

Bar == "|"
Slash == "/"

\* strings.Split(s, sep): the parts of s between the separators
RECURSIVE SplitOn(_, _)
SplitOn(s, sep) ==
    IF \A i \in 1..Len(s) : s[i] # sep
    THEN <<s>>
    ELSE LET i == CHOOSE j \in 1..Len(s) :
                      s[j] = sep /\ \A h \in 1..(j - 1) : s[h] # sep
         IN  <<SubSeq(s, 1, i - 1)>> \o SplitOn(SubSeq(s, i + 1, Len(s)), sep)

\* cluster|namespace/name, the empty pieces left out
ToClusterAwareKey(cluster, namespace, name) ==
    (IF cluster # <<>> THEN cluster \o <<Bar>> ELSE <<>>)
    \o (IF namespace # <<>> THEN namespace \o <<Slash>> ELSE <<>>)
    \o name

\* cache.SplitMetaNamespaceKey
SplitMetaNamespaceKey(key) ==
    LET parts == SplitOn(key, Slash)
    IN  CASE Len(parts) = 1 -> [ok |-> TRUE, namespace |-> <<>>, name |-> parts[1]]
          [] Len(parts) = 2 -> [ok |-> TRUE, namespace |-> parts[1], name |-> parts[2]]
          [] OTHER -> [ok |-> FALSE, namespace |-> <<>>, name |-> <<>>]

\* kcpcache.SplitMetaClusterNamespaceKey
SplitMetaClusterNamespaceKey(key) ==
    LET outer == SplitOn(key, Bar)
        bad == [ok |-> FALSE, cluster |-> <<>>, namespace |-> <<>>, name |-> <<>>]
    IN  CASE Len(outer) = 1 ->
               LET r == SplitMetaNamespaceKey(outer[1])
               IN  IF r.ok THEN [ok |-> TRUE, cluster |-> <<>>,
                                 namespace |-> r.namespace, name |-> r.name]
                   ELSE bad
          [] Len(outer) = 2 ->
               LET r == SplitMetaNamespaceKey(outer[2])
               IN  IF r.ok THEN [ok |-> TRUE, cluster |-> outer[1],
                                 namespace |-> r.namespace, name |-> r.name]
                   ELSE bad
          [] OTHER -> bad

\* The metadata of the objects the informers notify: logical clusters are
\* cluster-scoped and named "cluster"; endpoints are namespaced and carry no
\* cluster. oBad is an object whose name does not survive the key's split.
Meta(c, o) ==
    LET name == IF o = "oBad" THEN <<"x", Slash, "y", Slash, "z">>
                ELSE IF c = "endpoints" THEN <<o>> ELSE <<"cluster">>
    IN  IF c = "endpoints"
        THEN [cluster |-> <<>>, namespace |-> <<"ns">>, name |-> name]
        ELSE [cluster |-> <<o>>, namespace |-> <<>>, name |-> name]

\* kcpcache.MetaClusterNamespaceKeyFunc / cache.MetaNamespaceKeyFunc
KeyFunc(c, o) ==
    LET m == Meta(c, o) IN ToClusterAwareKey(m.cluster, m.namespace, m.name)

Keys == {KeyFunc(c, o) : c \in Controllers, o \in Objs}

\* the split each controller's process applies to a dequeued key
SplitKey(c, key) ==
    IF c = "endpoints"
    THEN LET r == SplitMetaNamespaceKey(key)
         IN  [ok |-> r.ok, cluster |-> <<>>, namespace |-> r.namespace, name |-> r.name]
    ELSE SplitMetaClusterNamespaceKey(key)

\* the object a well-formed key names
ObjOf(c, key) == CHOOSE o \in Objs : KeyFunc(c, o) = key

-----------------------------------------------------------------------------
(* The rate-limiting work queue (spec section 4.1): the keys ready for     *)
(* delivery in order, the dirty and the in-flight keys, the keys waiting   *)
(* for a delayed add, and the rate limiter's failure count per key.        *)

EmptyQueue ==
    [queue |-> <<>>, dirty |-> {}, processing |-> {}, waiting |-> {},
     failures |-> [k \in Keys |-> 0], shuttingDown |-> FALSE]

InQueue(qq, k) == \E i \in 1..Len(qq.queue) : qq.queue[i] = k

\* Add that appends the key whether or not it is dirty or in flight
QAddAlwaysAppends(qq, k) ==
    IF qq.shuttingDown THEN qq
    ELSE [qq EXCEPT !.dirty = @ \cup {k}, !.queue = Append(@, k)]

\* Add(key): ignored once the queue is shutting down; a key already marked
\* dirty is left alone; a key in flight is only marked dirty; any other key
\* is marked dirty and appended.
QAdd(qq, k) ==
    IF qq.shuttingDown \/ k \in qq.dirty THEN qq
    ELSE IF k \in qq.processing THEN [qq EXCEPT !.dirty = @ \cup {k}]
    ELSE [qq EXCEPT !.dirty = @ \cup {k}, !.queue = Append(@, k)]

\* Get(): the head of the queue becomes in flight and is no longer dirty
QGet(qq) ==
    LET k == Head(qq.queue)
    IN  [qq EXCEPT !.queue = Tail(@), !.processing = @ \cup {k}, !.dirty = @ \ {k}]

\* Done(key): releases the key and re-queues it when it was marked dirty
\* while in flight
QDone(qq, k) ==
    LET rel == [qq EXCEPT !.processing = @ \ {k}]
    IN  IF k \in qq.dirty THEN [rel EXCEPT !.queue = Append(@, k)] ELSE rel

\* AddAfter(key, delay): a timer, not a sleeping worker, holds the key;
\* ignored once the queue is shutting down
QAddAfter(qq, k) ==
    IF qq.shuttingDown THEN qq ELSE [qq EXCEPT !.waiting = @ \cup {k}]

\* AddRateLimited(key): AddAfter with the backoff of the key's failure
\* count, which it increments; past MaxFailures the backoff has reached its
\* maximum and the count makes no difference any more
QAddRateLimited(qq, k) ==
    QAddAfter([qq EXCEPT !.failures[k] = IF @ < MaxFailures THEN @ + 1 ELSE @], k)

\* Forget(key): resets the key's failure count
QForget(qq, k) == [qq EXCEPT !.failures[k] = 0]

\* the timer of a waiting key fires: the key is added
QTimerFire(qq, k) == QAdd([qq EXCEPT !.waiting = @ \ {k}], k)

QShutDown(qq) == [qq EXCEPT !.shuttingDown = TRUE]

-----------------------------------------------------------------------------
(* Errors and the worker's locals *)

NilErr == [kind |-> "nil", estimate |-> 0, what |-> ""]
\* deletion.ResourcesRemainingError{Estimate}
RemainingErr(e) == [kind |-> "remaining", estimate |-> e, what |-> "deleter"]
OtherErr(what) == [kind |-> "other", estimate |-> 0, what |-> what]

\* an entry of calls[w]: the call and a number that goes with it: the
\* seconds of an AddAfter; for a call to a collaborator 1 when it succeeded,
\* 0 when it returned an error, 2 when it reported not-found and that is let
\* through
Call(op, arg) == [op |-> op, arg |-> arg]

Outcome(a) == CASE a = "ok" -> 1 [] a = "notfound" -> 2 [] OTHER -> 0

\* how many calls of op a log holds
RECURSIVE Count(_, _)
Count(log, op) ==
    IF log = <<>> THEN 0
    ELSE (IF Head(log).op = op THEN 1 ELSE 0) + Count(Tail(log), op)

Issued(log, op) == Count(log, op) > 0

-----------------------------------------------------------------------------
(* Logical clusters and their owners *)

\* deletion.LogicalClusterDeletionFinalizer
DeletionFinalizer == "logicalcluster-deletion"
\* corev1alpha1.LogicalClusterFinalizer, the finalizer on the owner
OwnerFinalizer == "logicalcluster"

NoCondition == [reason |-> "", n |-> 0]

\* a logical cluster that does not exist
NoLC ==
    [exists |-> FALSE, deleting |-> FALSE, finalizers |-> <<>>,
     conditions |-> NoCondition, rv |-> 0, ownerUID |-> "",
     directlyDeletable |-> FALSE]

LC(deleting, finalizers, ownerUID, directlyDeletable) ==
    [exists |-> TRUE, deleting |-> deleting, finalizers |-> finalizers,
     conditions |-> NoCondition, rv |-> 1, ownerUID |-> ownerUID,
     directlyDeletable |-> directlyDeletable]

NoOwner == [exists |-> FALSE, uid |-> "", finalizers |-> {}, deleting |-> FALSE]

Owner(uid, finalizers) ==
    [exists |-> TRUE, uid |-> uid, finalizers |-> finalizers, deleting |-> FALSE]

\* the locals of a reconcile: the error it returns, the deleter's error, the
\* logical cluster as read and its copy, the owner as fetched; and, for the
\* record, the UID the owner had on its shard when the reconcile began
EmptyLoc ==
    [err |-> NilErr, deleteErr |-> NilErr, old |-> NoLC, ws |-> NoLC, own |-> NoOwner,
     ownerAtStart |-> ""]

\* the finalizer lists a logical cluster starts with
FinalizerLists ==
    {<<DeletionFinalizer>>, <<"a", DeletionFinalizer, "b">>, <<"a">>}

\* The shapes a deleting logical cluster and its owner take at the start:
\* with or without the deletion finalizer, alone or among others; without
\* owner reference, or with one whose owner is gone, or is there with or
\* without its finalizer, the logical cluster directly deletable or not.
InitShapes ==
    {[lc |-> LC(FALSE, f, "", FALSE), ow |-> NoOwner] : f \in FinalizerLists}
    \cup
    {[lc |-> LC(FALSE, f, "abc", dd), ow |-> ow] :
        f \in FinalizerLists \ {<<"a">>}, dd \in BOOLEAN,
        ow \in {Owner("abc", {OwnerFinalizer, "x"}), Owner("abc", {"x"})}}
    \cup
    {[lc |-> LC(FALSE, <<"a">>, "abc", dd), ow |-> Owner("abc", {OwnerFinalizer, "x"})] :
        dd \in BOOLEAN}
    \cup
    {[lc |-> LC(FALSE, f, "abc", TRUE), ow |-> NoOwner] :
        f \in FinalizerLists \ {<<"a">>}}

\* a deleting logical cluster without owner that carries the deletion
\* finalizer
PlainLC == LC(TRUE, <<DeletionFinalizer>>, "", FALSE)

-----------------------------------------------------------------------------
(* Construction *)

\* the logical-cluster deletion controller with one worker and one logical
\* cluster, o1, in every shape; its deleter fails at first
Init ==
    /\ ctl = "lcd"
    /\ numThreads = 1
    /\ q = EmptyQueue
    /\ pc = [w \in Workers |-> "unstarted"]
    /\ wkey = [w \in Workers |-> <<>>]
    /\ loc = [w \in Workers |-> EmptyLoc]
    /\ calls = [w \in Workers |-> <<>>]
    /\ dones = [w \in Workers |-> 0]
    /\ phase = "new"
    /\ \E sh \in InitShapes :
         /\ store = [o \in Objs |-> IF o = "o1" THEN sh.lc ELSE NoLC]
         /\ owner = [o \in Objs |-> IF o = "o1" THEN sh.ow ELSE NoOwner]
    /\ cache = store
    /\ deleter = [o \in Objs |-> IF o = "o1" THEN OtherErr("deleter") ELSE NilErr]
    /\ stopped = {}
    /\ part = NoPartition
    /\ errs = 0
    /\ front = NoClient

\* each of the three controllers with its pool of workers; the kubequota
\* monitor and the endpoints controller are notified of three objects, the
\* logical-cluster deletion controller of two plain logical clusters, o1
\* with content left and oBad; the key of oBad is unparsable
InitPool ==
    /\ ctl \in Controllers
    /\ numThreads = IF ctl = "quota" THEN 1 ELSE Cardinality(Workers)
    /\ q = EmptyQueue
    /\ pc = [w \in Workers |-> "unstarted"]
    /\ wkey = [w \in Workers |-> <<>>]
    /\ loc = [w \in Workers |-> EmptyLoc]
    /\ calls = [w \in Workers |-> <<>>]
    /\ dones = [w \in Workers |-> 0]
    /\ phase = "new"
    /\ store = [o \in Objs |-> IF ctl = "lcd" /\ o # "o2" THEN PlainLC ELSE NoLC]
    /\ owner = [o \in Objs |-> NoOwner]
    /\ cache = store
    /\ deleter = [o \in Objs |-> IF ctl = "lcd" /\ o = "o1" THEN RemainingErr(1)
                                  ELSE NilErr]
    /\ stopped = {}
    /\ part = NoPartition
    /\ errs = 0
    /\ front = NoClient

-----------------------------------------------------------------------------
(* The event bridge *)

\* enqueue(obj): the key function cannot fail for the objects notified here
enqueue(qq, o) == QAdd(qq, KeyFunc(ctl, o))

\* what a handler can be notified with: an object of the store, or
\* something the key function finds no metadata in
Notified == Objs \cup {"noMeta"}

\* MetaClusterNamespaceKeyFunc and the DeletionHandling key functions: the
\* key of an object, an error for anything else
KeyFuncResult(c, x) ==
    IF x \in Objs THEN [ok |-> TRUE, key |-> KeyFunc(c, x)]
    ELSE [ok |-> FALSE, key |-> <<>>]

\* enqueue that adds whatever the key function returned
HandlerEnqueueIgnoringError(x) ==
    /\ LET r == KeyFuncResult(ctl, x)
       IN  /\ ~r.ok => errs < MaxErrs
           /\ errs' = errs
           /\ q' = QAdd(q, IF r.ok THEN r.key ELSE KeyFunc(ctl, "oBad"))
    /\ UNCHANGED <<part, front, ctl, numThreads, pc, wkey, loc, calls, dones, phase, store, cache, owner, deleter, stopped>>

\* enqueue(obj) of each of the three controllers, as its handlers call it:
\* the key function's error is reported and nothing is added, else the key
\* is added
HandlerEnqueue(x) ==
    /\ LET r == KeyFuncResult(ctl, x)
       IN  IF ~r.ok
           THEN /\ errs < MaxErrs
                /\ errs' = errs + 1
                /\ q' = q
           ELSE /\ errs' = errs
                /\ q' = QAdd(q, r.key)
    /\ UNCHANGED <<part, front, ctl, numThreads, pc, wkey, loc, calls, dones, phase, store, cache, owner, deleter, stopped>>

\* an object that is no LogicalCluster, with a deletion timestamp
OtherObject == [exists |-> TRUE, deleting |-> TRUE, type |-> "other"]

\* the filter without its type switch
FilterFuncAnyType(x) == x.deleting

\* FilterFunc of the logical-cluster deletion controller: a LogicalCluster
\* with a non-zero deletion timestamp
FilterFunc(x) == x # OtherObject /\ x.deleting

\* the handler with a DeleteFunc that enqueues like the other two
LcdHandleWithDeleteFunc(qq, o, old, new) ==
    IF FilterFunc(IF new.exists THEN new ELSE old) THEN enqueue(qq, o) ELSE qq

\* cache.FilteringResourceEventHandler around AddFunc and UpdateFunc: what
\* the queue becomes on a notification that turns old into new
LcdHandle(qq, o, old, new) ==
    CASE ~old.exists /\ new.exists ->          \* OnAdd
           IF FilterFunc(new) THEN enqueue(qq, o) ELSE qq
      [] old.exists /\ new.exists ->           \* OnUpdate
           IF FilterFunc(new) THEN enqueue(qq, o) ELSE qq
      [] OTHER -> qq                           \* OnDelete: no DeleteFunc

\* the handler is notified that o is now new: the lister's view follows
\* when new is a logical cluster (or its absence)
LcdNotify(o, new) ==
    /\ ctl = "lcd"
    /\ cache[o].exists \/ store[o].exists
    /\ cache' = IF new = OtherObject THEN cache ELSE [cache EXCEPT ![o] = new]
    /\ q' = LcdHandle(q, o, cache[o], new)
    /\ UNCHANGED <<part, errs, front, ctl, numThreads, pc, wkey, loc, calls, dones, phase, store, owner, deleter, stopped>>

\* the informer brings the lister's view of o up to date (or resyncs it)
\* and notifies the handler
InformerDeliver(o) == LcdNotify(o, store[o])

\* the monitor's handler with an AddFunc and an UpdateFunc beside its
\* DeleteFunc
NotifyEveryKind(kind, o) ==
    /\ ctl \in {"quota", "endpoints"}
    /\ q' = enqueue(q, o)
    /\ UNCHANGED <<part, errs, front, ctl, numThreads, pc, wkey, loc, calls, dones, phase, store, cache, owner, deleter, stopped>>

\* a notification of the kubequota monitor's or the endpoints controller's
\* informer: the monitor handles deletes only, the endpoints controller
\* adds, updates and deletes; the tombstone of a missed delete goes to the
\* DeleteFunc and carries the key of the object
Notify(kind, o) ==
    /\ ctl \in {"quota", "endpoints"}
    /\ q' = IF ctl = "endpoints" \/ kind \in {"delete", "tombstone"} THEN enqueue(q, o) ELSE q
    /\ UNCHANGED <<part, errs, front, ctl, numThreads, pc, wkey, loc, calls, dones, phase, store, cache, owner, deleter, stopped>>

\* a delayed add comes due
TimerFire(k) ==
    /\ k \in q.waiting
    /\ q' = QTimerFire(q, k)
    /\ UNCHANGED <<part, errs, front, ctl, numThreads, pc, wkey, loc, calls, dones, phase, store, cache, owner, deleter, stopped>>

-----------------------------------------------------------------------------
(* The environment of the logical-cluster deletion controller *)

\* a logical cluster is marked for deletion
EnvMarkDeleting(o) ==
    /\ ctl = "lcd"
    /\ store[o].exists /\ ~store[o].deleting
    /\ store' = [store EXCEPT ![o].deleting = TRUE, ![o].rv = @ + 1]
    /\ UNCHANGED <<part, errs, front, ctl, numThreads, q, pc, wkey, loc, calls, dones, phase, cache, owner, deleter, stopped>>

\* the deleter recovers from its failure, or the content it reports drains
EnvDrain(o) ==
    /\ ctl = "lcd"
    /\ deleter[o].kind # "nil"
    /\ deleter' = [deleter EXCEPT ![o] =
                     CASE @.kind = "other" -> RemainingErr(MaxEstimate)
                       [] @.estimate > 1 -> RemainingErr(@.estimate - 1)
                       [] OTHER -> NilErr]
    /\ UNCHANGED <<part, errs, front, ctl, numThreads, q, pc, wkey, loc, calls, dones, phase, store, cache, owner, stopped>>

\* the content the deleter reported is gone at once
EnvEmptied(o) ==
    /\ ctl = "lcd"
    /\ deleter[o].kind = "remaining"
    /\ deleter' = [deleter EXCEPT ![o] = NilErr]
    /\ UNCHANGED <<part, errs, front, ctl, numThreads, q, pc, wkey, loc, calls, dones, phase, store, cache, owner, stopped>>

\* the owner is deleted and recreated under the same name: a new UID
EnvReplaceOwner(o) ==
    /\ ctl = "lcd"
    /\ owner[o].exists /\ owner[o].uid = "abc"
    /\ owner' = [owner EXCEPT ![o] = Owner("xyz", {OwnerFinalizer})]
    /\ UNCHANGED <<part, errs, front, ctl, numThreads, q, pc, wkey, loc, calls, dones, phase, store, cache, deleter, stopped>>

-----------------------------------------------------------------------------
(* Start *)

WorkerIndex(w) == IF w = "w1" THEN 1 ELSE 2

\* the workers Start launches
Started == {w \in Workers : WorkerIndex(w) <= numThreads}

\* Start that launches the workers without having set the client
StartWithoutClient ==
    /\ phase = "new"
    /\ phase' = "running"
    /\ pc' = [w \in Workers |-> IF w \in Started THEN "idle" ELSE pc[w]]
    /\ UNCHANGED <<part, errs, front, q, ctl, numThreads, wkey, loc, calls, dones, store, cache, owner, deleter, stopped>>

\* Start: builds the front-proxy client (logical-cluster deletion only) for
\* the URL shardExternalURL() returns now, sets it, and launches the
\* workers; when the client cannot be built it returns, and its deferred
\* ShutDown runs
Start ==
    /\ phase = "new"
    /\ \E built \in {b \in BOOLEAN : ctl = "lcd" \/ b} :
         IF built
         THEN /\ phase' = "running"
              /\ front' = IF ctl = "lcd" THEN [front EXCEPT !.client = front.url] ELSE front
              /\ pc' = [w \in Workers |-> IF w \in Started THEN "idle" ELSE pc[w]]
              /\ q' = q
         ELSE /\ phase' = "returned"
              /\ front' = front
              /\ q' = QShutDown(q)
              /\ pc' = pc
    /\ UNCHANGED <<part, errs, ctl, numThreads, wkey, loc, calls, dones, store, cache, owner, deleter, stopped>>

\* the resolver's answer changes
EnvResolve(u) ==
    /\ ctl = "lcd"
    /\ front.url # u
    /\ front' = [front EXCEPT !.url = u]
    /\ UNCHANGED <<part, errs, q, pc, phase, ctl, numThreads, wkey, loc, calls, dones, store, cache, owner, deleter, stopped>>

\* Start returning without the deferred queue.ShutDown()
StartReturnWithoutShutDown ==
    /\ phase = "running"
    /\ phase' = "returned"
    /\ UNCHANGED <<part, errs, front, ctl, numThreads, q, pc, wkey, loc, calls, dones, store, cache, owner, deleter, stopped>>

\* the context is cancelled and Start returns from <-ctx.Done(): the
\* deferred queue.ShutDown() runs
StartReturn ==
    /\ phase = "running"
    /\ phase' = "returned"
    /\ q' = QShutDown(q)
    /\ UNCHANGED <<part, errs, front, ctl, numThreads, pc, wkey, loc, calls, dones, store, cache, owner, deleter, stopped>>

-----------------------------------------------------------------------------
(* processNextWorkItem: Get, the reconcile, the requeue decision, Done *)

InFlight(w) == pc[w] \notin {"unstarted", "idle", "stopped"}

Log(w, op, arg) == [calls EXCEPT ![w] = Append(@, Call(op, arg))]

\* the reconcile of worker w returns e
Return(w, e) ==
    /\ loc' = [loc EXCEPT ![w].err = e]
    /\ pc' = [pc EXCEPT ![w] = "requeue"]

\* Get with Done(key) called at once instead of deferred
GetDoneNotDeferred(w) ==
    /\ pc[w] = "idle"
    /\ q.queue # <<>> \/ q.shuttingDown
    /\ IF q.queue # <<>>
       THEN /\ q' = QDone(QGet(q), Head(q.queue))
            /\ wkey' = [wkey EXCEPT ![w] = Head(q.queue)]
            /\ pc' = [pc EXCEPT ![w] = "process"]
            /\ calls' = [calls EXCEPT ![w] = <<Call("Get", 0)>>]
       ELSE /\ q' = q
            /\ wkey' = wkey
            /\ pc' = [pc EXCEPT ![w] = "stopped"]
            /\ calls' = [calls EXCEPT ![w] = <<Call("GetShutdown", 0)>>]
    /\ dones' = [dones EXCEPT ![w] = 0]
    /\ UNCHANGED <<part, errs, front, ctl, numThreads, loc, phase, store, cache, owner, deleter, stopped>>

\* k, quit := queue.Get(): blocks while the queue is empty and not shut
\* down; on quit the worker stops; otherwise Done(key) is deferred
Get(w) ==
    /\ pc[w] = "idle"
    /\ q.queue # <<>> \/ q.shuttingDown
    /\ IF q.queue # <<>>
       THEN /\ q' = QGet(q)
            /\ wkey' = [wkey EXCEPT ![w] = Head(q.queue)]
            /\ pc' = [pc EXCEPT ![w] = "process"]
            /\ calls' = [calls EXCEPT ![w] = <<Call("Get", 0)>>]
       ELSE /\ q' = q
            /\ wkey' = wkey
            /\ pc' = [pc EXCEPT ![w] = "stopped"]
            /\ calls' = [calls EXCEPT ![w] = <<Call("GetShutdown", 0)>>]
    /\ dones' = [dones EXCEPT ![w] = 0]
    /\ UNCHANGED <<part, errs, front, ctl, numThreads, loc, phase, store, cache, owner, deleter, stopped>>

\* the wait without the added second
WaitSecondsNoFloor(estimate) == estimate \div 2

\* t := estimate.Estimate/2 + 1, the seconds of the delayed requeue
WaitSeconds(estimate) == estimate \div 2 + 1

\* the decision that takes a conflict for success
RequeueCallAbsorbsConflict(c, err) ==
    CASE err.kind = "nil" \/ err = [kind |-> "other", estimate |-> 0, what |-> "conflict"] ->
           Call("Forget", 0)
      [] err.kind = "remaining" /\ c = "lcd" -> Call("AddAfter", WaitSeconds(err.estimate))
      [] OTHER -> Call("AddRateLimited", 0)

\* the requeue decision that takes a ResourcesRemainingError for done
RequeueCallDropsRemaining(c, err) ==
    CASE err.kind = "other" -> Call("AddRateLimited", 0)
      [] OTHER -> Call("Forget", 0)

\* the requeue decision without the errors.As branch
RequeueCallNoEstimate(c, err) ==
    CASE err.kind = "nil" -> Call("Forget", 0)
      [] OTHER -> Call("AddRateLimited", 0)

\* the branch processNextWorkItem takes on the reconcile's result. The
\* logical-cluster deletion controller tells a ResourcesRemainingError from
\* other errors; the other two controllers rate-limit every error.
RequeueCall(c, err) ==
    CASE err.kind = "nil" -> Call("Forget", 0)
      [] err.kind = "remaining" /\ c = "lcd" -> Call("AddAfter", WaitSeconds(err.estimate))
      [] OTHER -> Call("AddRateLimited", 0)

\* Requeue with Done(key) not deferred: the success path returns before it
RequeueReturnsBeforeDone(w) ==
    /\ pc[w] = "requeue"
    /\ LET k == wkey[w]
           call == RequeueCall(ctl, loc[w].err)
       IN  /\ q' = CASE call.op = "Forget" -> QForget(q, k)
                     [] call.op = "AddAfter" -> QAddAfter(q, k)
                     [] OTHER -> QAddRateLimited(q, k)
           /\ calls' = IF call.op = "Forget" THEN [calls EXCEPT ![w] = <<>>]
                       ELSE Log(w, call.op, call.arg)
           /\ pc' = [pc EXCEPT ![w] = IF call.op = "Forget" THEN "idle" ELSE "done"]
           /\ loc' = IF call.op = "Forget" THEN [loc EXCEPT ![w] = EmptyLoc] ELSE loc
    /\ UNCHANGED <<part, errs, front, ctl, numThreads, wkey, dones, phase, store, cache, owner, deleter, stopped>>

\* Requeue that retries a failed key in place, the worker kept on it
RequeueRetriesInPlace(w) ==
    /\ pc[w] = "requeue"
    /\ LET k == wkey[w]
           call == RequeueCall(ctl, loc[w].err)
       IN  /\ q' = IF call.op = "Forget" THEN QForget(q, k) ELSE q
           /\ calls' = Log(w, call.op, call.arg)
           /\ pc' = [pc EXCEPT ![w] = IF call.op = "Forget" THEN "done" ELSE "process"]
    /\ UNCHANGED <<part, errs, front, ctl, numThreads, wkey, loc, dones, phase, store, cache, owner, deleter, stopped>>

\* the requeue decision of processNextWorkItem, taken before it returns
Requeue(w) ==
    /\ pc[w] = "requeue"
    /\ LET k == wkey[w]
           call == RequeueCall(ctl, loc[w].err)
       IN  /\ q' = CASE call.op = "Forget" -> QForget(q, k)
                     [] call.op = "AddAfter" -> QAddAfter(q, k)
                     [] OTHER -> QAddRateLimited(q, k)
           /\ calls' = Log(w, call.op, call.arg)
    /\ pc' = [pc EXCEPT ![w] = "done"]
    /\ UNCHANGED <<part, errs, front, ctl, numThreads, wkey, loc, dones, phase, store, cache, owner, deleter, stopped>>

\* processNextWorkItem returning without the Done(key) of a key that was
\* added again while in flight
DoneMissedWhenDirty(w) ==
    /\ pc[w] = "done"
    /\ q' = IF wkey[w] \in q.dirty THEN q ELSE QDone(q, wkey[w])
    /\ dones' = [dones EXCEPT ![w] = @ + 1]
    /\ pc' = [pc EXCEPT ![w] = "idle"]
    /\ loc' = [loc EXCEPT ![w] = EmptyLoc]
    /\ calls' = [calls EXCEPT ![w] = <<>>]
    /\ UNCHANGED <<part, errs, front, ctl, numThreads, wkey, phase, store, cache, owner, deleter, stopped>>

\* processNextWorkItem returns: the deferred queue.Done(key) runs
Done(w) ==
    /\ pc[w] = "done"
    /\ q' = QDone(q, wkey[w])
    /\ dones' = [dones EXCEPT ![w] = @ + 1]
    /\ pc' = [pc EXCEPT ![w] = "idle"]
    /\ loc' = [loc EXCEPT ![w] = EmptyLoc]
    /\ calls' = [calls EXCEPT ![w] = <<>>]
    /\ UNCHANGED <<part, errs, front, ctl, numThreads, wkey, phase, store, cache, owner, deleter, stopped>>

-----------------------------------------------------------------------------
(* The reconciles of the kubequota monitor and the endpoints controller *)

\* logicalClusterDeletionMonitor.process: an unparsable key is reported and
\* dropped; otherwise stopFunc(clusterName); never an error
MonitorProcess(w) ==
    /\ ctl = "quota"
    /\ pc[w] = "process"
    /\ LET r == SplitMetaClusterNamespaceKey(wkey[w])
       IN  /\ stopped' = IF r.ok THEN stopped \cup {r.cluster} ELSE stopped
           /\ calls' = IF r.ok THEN Log(w, "stopFunc", 0) ELSE Log(w, "HandleError", 0)
    /\ Return(w, NilErr)
    /\ UNCHANGED <<part, errs, front, ctl, numThreads, q, wkey, dones, phase, store, cache, owner, deleter>>

\* controller.process of the syncer endpoints controller: the split's error
\* is returned
EndpointsProcess(w) ==
    /\ ctl = "endpoints"
    /\ pc[w] = "process"
    /\ LET r == SplitMetaNamespaceKey(wkey[w])
       IN  Return(w, IF r.ok THEN NilErr ELSE OtherErr("split"))
    /\ UNCHANGED <<part, errs, front, ctl, numThreads, q, wkey, calls, dones, phase, store, cache, owner, deleter, stopped>>

-----------------------------------------------------------------------------
(* Controller.process of the logical-cluster deletion controller *)

\* the index of the first entry of fs that is the deletion finalizer, or 0
FirstDeletionFinalizer(fs) ==
    IF \E i \in 1..Len(fs) : fs[i] = DeletionFinalizer
    THEN CHOOSE i \in 1..Len(fs) :
            fs[i] = DeletionFinalizer /\ \A j \in 1..(i - 1) : fs[j] # DeletionFinalizer
    ELSE 0

\* the removal of every entry equal to the i-th
RemoveAllEqual(fs, i) == SelectSeq(fs, LAMBDA x : x # fs[i])

\* append(ws.Finalizers[:i], ws.Finalizers[i+1:]...)
RemoveAt(fs, i) == SubSeq(fs, 1, i - 1) \o SubSeq(fs, i + 1, Len(fs))

HasDeletionFinalizer(lc) == FirstDeletionFinalizer(lc.finalizers) # 0

\* what the store makes of an accepted write of a logical cluster: a new
\* resourceVersion, and the object is gone once it is deleting and carries
\* no finalizer
Persist(lc, rv) ==
    IF lc.deleting /\ lc.finalizers = <<>> THEN NoLC ELSE [lc EXCEPT !.rv = rv + 1]

\* the same for an owner
PersistOwner(ow) ==
    IF ow.deleting /\ ow.finalizers = {} THEN NoOwner ELSE ow

\* process that returns the lister's not-found
processNotFoundIsError(w) ==
    /\ ctl = "lcd"
    /\ pc[w] = "process"
    /\ LET r == SplitMetaClusterNamespaceKey(wkey[w])
       IN  IF ~r.ok
           THEN /\ Return(w, NilErr)
                /\ calls' = Log(w, "HandleError", 0)
           ELSE LET lc == cache[ObjOf(ctl, wkey[w])]
                IN  /\ calls' = calls
                    /\ IF ~lc.exists
                       THEN Return(w, OtherErr("notfound"))
                       ELSE \E failed \in BOOLEAN :
                              IF failed THEN Return(w, OtherErr("lister"))
                              ELSE IF ~lc.deleting THEN Return(w, NilErr)
                              ELSE /\ loc' = [loc EXCEPT ![w].old = lc, ![w].ws = lc,
                                                      ![w].ownerAtStart =
                                                          owner[ObjOf(ctl, wkey[w])].uid]
                                   /\ pc' = [pc EXCEPT ![w] = "delete"]
    /\ UNCHANGED <<part, errs, front, ctl, numThreads, q, wkey, dones, phase, store, cache, owner, deleter, stopped>>

\* process that goes on to the deleter whether or not the logical cluster
\* is deleting
processIgnoresDeletionTimestamp(w) ==
    /\ ctl = "lcd"
    /\ pc[w] = "process"
    /\ LET r == SplitMetaClusterNamespaceKey(wkey[w])
       IN  IF ~r.ok
           THEN /\ Return(w, NilErr)
                /\ calls' = Log(w, "HandleError", 0)
           ELSE LET lc == cache[ObjOf(ctl, wkey[w])]
                IN  /\ calls' = calls
                    /\ IF ~lc.exists
                       THEN Return(w, NilErr)
                       ELSE \E failed \in BOOLEAN :
                              IF failed THEN Return(w, OtherErr("lister"))
                              ELSE /\ loc' = [loc EXCEPT ![w].old = lc, ![w].ws = lc,
                                                      ![w].ownerAtStart =
                                                          owner[ObjOf(ctl, wkey[w])].uid]
                                   /\ pc' = [pc EXCEPT ![w] = "delete"]
    /\ UNCHANGED <<part, errs, front, ctl, numThreads, q, wkey, dones, phase, store, cache, owner, deleter, stopped>>

\* process up to the deleter call: split the key, read the logical cluster
\* from the lister, leave when it is gone or not deleting, copy it
process(w) ==
    /\ ctl = "lcd"
    /\ pc[w] = "process"
    /\ LET r == SplitMetaClusterNamespaceKey(wkey[w])
       IN  IF ~r.ok
           THEN /\ Return(w, NilErr)
                /\ calls' = Log(w, "HandleError", 0)
           ELSE LET lc == cache[ObjOf(ctl, wkey[w])]
                IN  /\ calls' = calls
                    /\ IF ~lc.exists
                       THEN Return(w, NilErr)
                       ELSE \E failed \in BOOLEAN :
                              IF failed THEN Return(w, OtherErr("lister"))
                              ELSE IF ~lc.deleting THEN Return(w, NilErr)
                              ELSE /\ loc' = [loc EXCEPT ![w].old = lc, ![w].ws = lc,
                                                      ![w].ownerAtStart =
                                                          owner[ObjOf(ctl, wkey[w])].uid]
                                   /\ pc' = [pc EXCEPT ![w] = "delete"]
    /\ UNCHANGED <<part, errs, front, ctl, numThreads, q, wkey, dones, phase, store, cache, owner, deleter, stopped>>

\* the condition deleter.Delete leaves on the copy when it returns e
DeleterCondition(e, cond) ==
    CASE e.kind = "nil" -> cond
      [] e.kind = "remaining" -> [reason |-> "ResourcesRemaining", n |-> e.estimate]
      [] OTHER -> [reason |-> "ResourceDeletionFailed", n |-> 0]

\* Delete that goes on to the RBAC cleanup, the owner and the Update
\* whether or not the copy carries the deletion finalizer
DeleteFinalizesWithoutFinalizer(w) ==
    /\ pc[w] = "delete"
    /\ LET e == deleter[ObjOf(ctl, wkey[w])]
           ws == [loc[w].ws EXCEPT !.conditions = DeleterCondition(e, @)]
           i == FirstDeletionFinalizer(ws.finalizers)
       IN  /\ calls' = Log(w, "Delete", IF e.kind = "nil" THEN 1 ELSE 0)
           /\ IF e.kind # "nil"
              THEN /\ loc' = [loc EXCEPT ![w].deleteErr = e, ![w].ws = ws]
                   /\ pc' = [pc EXCEPT ![w] = "patch"]
              ELSE /\ loc' = [loc EXCEPT ![w].ws.finalizers =
                                             IF i = 0 THEN @ ELSE RemoveAt(@, i)]
                   /\ pc' = [pc EXCEPT ![w] = "roles"]
    /\ UNCHANGED <<part, errs, front, ctl, numThreads, q, wkey, dones, phase, store, cache, owner, deleter, stopped>>

\* Delete that goes on to finalize whatever the deleter returned
DeleteIgnoringError(w) ==
    /\ pc[w] = "delete"
    /\ LET e == deleter[ObjOf(ctl, wkey[w])]
           ws == [loc[w].ws EXCEPT !.conditions = DeleterCondition(e, @)]
           i == FirstDeletionFinalizer(ws.finalizers)
       IN  /\ calls' = Log(w, "Delete", IF e.kind = "nil" THEN 1 ELSE 0)
           /\ IF i = 0
              THEN Return(w, NilErr)
              ELSE /\ loc' = [loc EXCEPT ![w].deleteErr = e,
                                         ![w].ws.finalizers = RemoveAt(@, i)]
                   /\ pc' = [pc EXCEPT ![w] = "roles"]
    /\ UNCHANGED <<part, errs, front, ctl, numThreads, q, wkey, dones, phase, store, cache, owner, deleter, stopped>>

\* deleteErr = c.deleter.Delete(ctx, logicalClusterCopy); on success
\* finalizeWorkspace starts: without the deletion finalizer it returns nil,
\* with it the first such entry is cut from the copy
Delete(w) ==
    /\ pc[w] = "delete"
    /\ LET e == deleter[ObjOf(ctl, wkey[w])]
           ws == [loc[w].ws EXCEPT !.conditions = DeleterCondition(e, @)]
           i == FirstDeletionFinalizer(ws.finalizers)
       IN  /\ calls' = Log(w, "Delete", IF e.kind = "nil" THEN 1 ELSE 0)
           /\ IF e.kind # "nil"
              THEN /\ loc' = [loc EXCEPT ![w].deleteErr = e, ![w].ws = ws]
                   /\ pc' = [pc EXCEPT ![w] = "patch"]
              ELSE IF i = 0
              THEN Return(w, NilErr)
              ELSE /\ loc' = [loc EXCEPT ![w].ws.finalizers = RemoveAt(@, i)]
                   /\ pc' = [pc EXCEPT ![w] = "roles"]
    /\ UNCHANGED <<part, errs, front, ctl, numThreads, q, wkey, dones, phase, store, cache, owner, deleter, stopped>>

\* what the API server answers to a write of a logical cluster read at
\* resourceVersion rv
WriteAnswer(stored, rv) ==
    CASE ~stored.exists -> "notfound"
      [] stored.rv # rv -> "conflict"
      [] OTHER -> "ok"

\* patchCondition whose result, nil after a successful patch, is what the
\* reconcile returns
patchConditionDropsDeleteErr(w) ==
    /\ pc[w] = "patch"
    /\ LET o == ObjOf(ctl, wkey[w])
           old == loc[w].old
           new == loc[w].ws
       IN  IF old.conditions = new.conditions
           THEN /\ Return(w, loc[w].deleteErr)
                /\ UNCHANGED <<calls, store>>
           ELSE \E failed \in BOOLEAN :
                  LET a == IF failed THEN "error" ELSE WriteAnswer(store[o], old.rv)
                  IN  /\ calls' = Log(w, "Patch", Outcome(IF a = "ok" THEN "ok" ELSE "error"))
                      /\ IF a = "ok"
                         THEN /\ store' = [store EXCEPT ![o].conditions = new.conditions,
                                                        ![o].rv = @ + 1]
                              /\ Return(w, NilErr)
                         ELSE /\ store' = store
                              /\ Return(w, OtherErr(a))
    /\ UNCHANGED <<part, errs, front, ctl, numThreads, q, wkey, dones, phase, cache, owner, deleter, stopped>>

\* patchCondition whose patch carries neither UID nor resourceVersion: it
\* is applied to whatever is stored
patchConditionNoPrecondition(w) ==
    /\ pc[w] = "patch"
    /\ LET o == ObjOf(ctl, wkey[w])
           old == loc[w].old
           new == loc[w].ws
       IN  IF old.conditions = new.conditions
           THEN /\ Return(w, loc[w].deleteErr)
                /\ UNCHANGED <<calls, store>>
           ELSE \E failed \in BOOLEAN :
                  LET a == IF failed THEN "error"
                           ELSE IF store[o].exists THEN "ok" ELSE "notfound"
                  IN  /\ calls' = Log(w, "Patch", Outcome(IF a = "ok" THEN "ok" ELSE "error"))
                      /\ IF a = "ok"
                         THEN /\ store' = [store EXCEPT ![o].conditions = new.conditions,
                                                        ![o].rv = @ + 1]
                              /\ Return(w, loc[w].deleteErr)
                         ELSE /\ store' = store
                              /\ Return(w, OtherErr(a))
    /\ UNCHANGED <<part, errs, front, ctl, numThreads, q, wkey, dones, phase, cache, owner, deleter, stopped>>

\* patchCondition without the comparison of the condition sets
patchConditionAlways(w) ==
    /\ pc[w] = "patch"
    /\ LET o == ObjOf(ctl, wkey[w])
           old == loc[w].old
           new == loc[w].ws
       IN  \E failed \in BOOLEAN :
             LET a == IF failed THEN "error" ELSE WriteAnswer(store[o], old.rv)
             IN  /\ calls' = Log(w, "Patch", Outcome(IF a = "ok" THEN "ok" ELSE "error"))
                 /\ IF a = "ok"
                    THEN /\ store' = [store EXCEPT ![o].conditions = new.conditions,
                                                   ![o].rv = @ + 1]
                         /\ Return(w, loc[w].deleteErr)
                    ELSE /\ store' = store
                         /\ Return(w, OtherErr(a))
    /\ UNCHANGED <<part, errs, front, ctl, numThreads, q, wkey, dones, phase, cache, owner, deleter, stopped>>

\* patchCondition(old, new), then return deleteErr: equal conditions, no
\* call; otherwise a status merge patch under the UID and resourceVersion of
\* old, whose error, if any, is returned in place of deleteErr
patchCondition(w) ==
    /\ pc[w] = "patch"
    /\ LET o == ObjOf(ctl, wkey[w])
           old == loc[w].old
           new == loc[w].ws
       IN  IF old.conditions = new.conditions
           THEN /\ Return(w, loc[w].deleteErr)
                /\ UNCHANGED <<calls, store>>
           ELSE \E failed \in BOOLEAN :
                  LET a == IF failed THEN "error" ELSE WriteAnswer(store[o], old.rv)
                  IN  /\ calls' = Log(w, "Patch", Outcome(IF a = "ok" THEN "ok" ELSE "error"))
                      /\ IF a = "ok"
                         THEN /\ store' = [store EXCEPT ![o].conditions = new.conditions,
                                                        ![o].rv = @ + 1]
                              /\ Return(w, loc[w].deleteErr)
                         ELSE /\ store' = store
                              /\ Return(w, OtherErr(a))
    /\ UNCHANGED <<part, errs, front, ctl, numThreads, q, wkey, dones, phase, cache, owner, deleter, stopped>>

-----------------------------------------------------------------------------
(* Controller.finalizeWorkspace, from the RBAC cleanup on *)

\* the owner deleted whether or not it is deleting already
AfterOwnerFinalizerIgnoresDeleting(obj, ws) ==
    IF ws.directlyDeletable THEN "ownerDelete" ELSE "update"

\* where finalizing goes after the owner's finalizer is settled: the owner
\* delete when the owner is not deleting and the logical cluster is directly
\* deletable, else the logical cluster's update
AfterOwnerFinalizer(obj, ws) ==
    IF ~obj.deleting /\ ws.directlyDeletable THEN "ownerDelete" ELSE "update"

\* DeleteRoles that returns a not-found like any other error
DeleteRolesNotFoundIsError(w) ==
    /\ pc[w] = "roles"
    /\ \E a \in {"ok", "notfound", "error"} :
         /\ calls' = Log(w, "DeleteRoles", Outcome(a))
         /\ IF a # "ok"
            THEN Return(w, OtherErr("clusterroles"))
            ELSE /\ pc' = [pc EXCEPT ![w] = "bindings"]
                 /\ loc' = loc
    /\ UNCHANGED <<part, errs, front, ctl, numThreads, q, wkey, dones, phase, store, cache, owner, deleter, stopped>>

\* ClusterRoles().DeleteCollection: not-found is let through
DeleteRoles(w) ==
    /\ pc[w] = "roles"
    /\ \E a \in {"ok", "notfound", "error"} :
         /\ calls' = Log(w, "DeleteRoles", Outcome(a))
         /\ IF a = "error"
            THEN Return(w, OtherErr("clusterroles"))
            ELSE /\ pc' = [pc EXCEPT ![w] = "bindings"]
                 /\ loc' = loc
    /\ UNCHANGED <<part, errs, front, ctl, numThreads, q, wkey, dones, phase, store, cache, owner, deleter, stopped>>

\* DeleteBindings that goes on to the logical cluster's Update, leaving the
\* owner for later
DeleteBindingsSkipsOwner(w) ==
    /\ pc[w] = "bindings"
    /\ \E a \in {"ok", "notfound", "error"} :
         /\ calls' = Log(w, "DeleteBindings", Outcome(a))
         /\ IF a = "error"
            THEN Return(w, OtherErr("clusterrolebindings"))
            ELSE /\ pc' = [pc EXCEPT ![w] = "update"]
                 /\ loc' = loc
    /\ UNCHANGED <<part, errs, front, ctl, numThreads, q, wkey, dones, phase, store, cache, owner, deleter, stopped>>

\* ClusterRoleBindings().DeleteCollection; then the owner, if there is one
DeleteBindings(w) ==
    /\ pc[w] = "bindings"
    /\ \E a \in {"ok", "notfound", "error"} :
         /\ calls' = Log(w, "DeleteBindings", Outcome(a))
         /\ IF a = "error"
            THEN Return(w, OtherErr("clusterrolebindings"))
            ELSE /\ pc' = [pc EXCEPT ![w] =
                             IF loc[w].ws.ownerUID # "" THEN "ownerGet" ELSE "update"]
                 /\ loc' = loc
    /\ UNCHANGED <<part, errs, front, ctl, numThreads, q, wkey, dones, phase, store, cache, owner, deleter, stopped>>

\* OwnerGet that returns a not-found like any other error
OwnerGetNotFoundIsError(w) ==
    /\ pc[w] = "ownerGet"
    /\ LET obj == owner[ObjOf(ctl, wkey[w])]
           ws == loc[w].ws
       IN  \E failed \in BOOLEAN :
             /\ calls' = Log(w, "OwnerGet", Outcome(IF failed THEN "error"
                                                    ELSE IF obj.exists THEN "ok"
                                                    ELSE "notfound"))
             /\ IF failed \/ ~obj.exists THEN Return(w, OtherErr("ownerGet"))
                ELSE IF obj.uid # ws.ownerUID
                THEN /\ loc' = [loc EXCEPT ![w].own = obj, ![w].err = OtherErr("wrongUID")]
                     /\ pc' = [pc EXCEPT ![w] = "requeue"]
                ELSE /\ loc' = [loc EXCEPT ![w].own = obj]
                     /\ pc' = [pc EXCEPT ![w] =
                                 IF OwnerFinalizer \in obj.finalizers
                                 THEN "ownerUpdate"
                                 ELSE AfterOwnerFinalizer(obj, ws)]
    /\ UNCHANGED <<part, errs, front, ctl, numThreads, q, wkey, dones, phase, store, cache, owner, deleter, stopped>>

\* OwnerGet without the comparison of the UIDs
OwnerGetNoUIDCheck(w) ==
    /\ pc[w] = "ownerGet"
    /\ LET obj == owner[ObjOf(ctl, wkey[w])]
           ws == loc[w].ws
       IN  \E failed \in BOOLEAN :
             /\ calls' = Log(w, "OwnerGet", Outcome(IF failed THEN "error"
                                                    ELSE IF obj.exists THEN "ok"
                                                    ELSE "notfound"))
             /\ IF failed THEN Return(w, OtherErr("ownerGet"))
                ELSE IF ~obj.exists
                THEN /\ pc' = [pc EXCEPT ![w] = "update"]
                     /\ loc' = loc
                ELSE /\ loc' = [loc EXCEPT ![w].own = obj]
                     /\ pc' = [pc EXCEPT ![w] =
                                 IF OwnerFinalizer \in obj.finalizers
                                 THEN "ownerUpdate"
                                 ELSE AfterOwnerFinalizer(obj, ws)]
    /\ UNCHANGED <<part, errs, front, ctl, numThreads, q, wkey, dones, phase, store, cache, owner, deleter, stopped>>

\* OwnerGet that skips an owner with a foreign UID as it skips a missing one
OwnerGetSkipsReplaced(w) ==
    /\ pc[w] = "ownerGet"
    /\ LET obj == owner[ObjOf(ctl, wkey[w])]
           ws == loc[w].ws
       IN  \E failed \in BOOLEAN :
             /\ calls' = Log(w, "OwnerGet", Outcome(IF failed THEN "error"
                                                    ELSE IF obj.exists THEN "ok"
                                                    ELSE "notfound"))
             /\ IF failed THEN Return(w, OtherErr("ownerGet"))
                ELSE IF ~obj.exists \/ obj.uid # ws.ownerUID
                THEN /\ pc' = [pc EXCEPT ![w] = "update"]
                     /\ loc' = loc
                ELSE /\ loc' = [loc EXCEPT ![w].own = obj]
                     /\ pc' = [pc EXCEPT ![w] =
                                 IF OwnerFinalizer \in obj.finalizers
                                 THEN "ownerUpdate"
                                 ELSE AfterOwnerFinalizer(obj, ws)]
    /\ UNCHANGED <<part, errs, front, ctl, numThreads, q, wkey, dones, phase, store, cache, owner, deleter, stopped>>

\* Get of the owner through the front proxy: an error other than not-found
\* is returned, not-found skips the owner, a foreign UID is an error
OwnerGet(w) ==
    /\ pc[w] = "ownerGet"
    /\ LET obj == owner[ObjOf(ctl, wkey[w])]
           ws == loc[w].ws
       IN  \E failed \in BOOLEAN :
             /\ calls' = Log(w, "OwnerGet", Outcome(IF failed THEN "error"
                                                    ELSE IF obj.exists THEN "ok"
                                                    ELSE "notfound"))
             /\ IF failed THEN Return(w, OtherErr("ownerGet"))
                ELSE IF ~obj.exists
                THEN /\ pc' = [pc EXCEPT ![w] = "update"]
                     /\ loc' = loc
                ELSE IF obj.uid # ws.ownerUID
                THEN /\ loc' = [loc EXCEPT ![w].own = obj, ![w].err = OtherErr("wrongUID")]
                     /\ pc' = [pc EXCEPT ![w] = "requeue"]
                ELSE /\ loc' = [loc EXCEPT ![w].own = obj]
                     /\ pc' = [pc EXCEPT ![w] =
                                 IF OwnerFinalizer \in obj.finalizers
                                 THEN "ownerUpdate"
                                 ELSE AfterOwnerFinalizer(obj, ws)]
    /\ UNCHANGED <<part, errs, front, ctl, numThreads, q, wkey, dones, phase, store, cache, owner, deleter, stopped>>

\* OwnerUpdate that stores the owner without any finalizer
OwnerUpdateDropsEveryFinalizer(w) ==
    /\ pc[w] = "ownerUpdate"
    /\ LET o == ObjOf(ctl, wkey[w])
           obj == [loc[w].own EXCEPT !.finalizers = {}]
       IN  \E failed \in BOOLEAN :
             /\ calls' = Log(w, "OwnerUpdate",
                             Outcome(IF failed \/ owner[o] # loc[w].own THEN "error" ELSE "ok"))
             /\ IF failed \/ owner[o] # loc[w].own
                THEN /\ Return(w, OtherErr("ownerUpdate"))
                     /\ owner' = owner
                ELSE /\ owner' = [owner EXCEPT ![o] = PersistOwner(obj)]
                     /\ loc' = [loc EXCEPT ![w].own = obj]
                     /\ pc' = [pc EXCEPT ![w] = AfterOwnerFinalizer(obj, loc[w].ws)]
    /\ UNCHANGED <<part, errs, front, ctl, numThreads, q, wkey, dones, phase, store, cache, deleter, stopped>>

\* Update of the owner without its logical-cluster finalizer; the update is
\* refused when the owner is no longer the object that was read
OwnerUpdate(w) ==
    /\ pc[w] = "ownerUpdate"
    /\ LET o == ObjOf(ctl, wkey[w])
           obj == [loc[w].own EXCEPT !.finalizers = @ \ {OwnerFinalizer}]
       IN  \E failed \in BOOLEAN :
             /\ calls' = Log(w, "OwnerUpdate",
                             Outcome(IF failed \/ owner[o] # loc[w].own THEN "error" ELSE "ok"))
             /\ IF failed \/ owner[o] # loc[w].own
                THEN /\ Return(w, OtherErr("ownerUpdate"))
                     /\ owner' = owner
                ELSE /\ owner' = [owner EXCEPT ![o] = PersistOwner(obj)]
                     /\ loc' = [loc EXCEPT ![w].own = obj]
                     /\ pc' = [pc EXCEPT ![w] = AfterOwnerFinalizer(obj, loc[w].ws)]
    /\ UNCHANGED <<part, errs, front, ctl, numThreads, q, wkey, dones, phase, store, cache, deleter, stopped>>

\* OwnerDelete without the UID precondition: whatever owner is there is
\* deleted
OwnerDeleteWithoutPrecondition(w) ==
    /\ pc[w] = "ownerDelete"
    /\ LET o == ObjOf(ctl, wkey[w])
       IN  \E failed \in BOOLEAN :
             /\ calls' = Log(w, "OwnerDelete",
                             Outcome(IF failed THEN "error"
                                     ELSE IF owner[o].exists THEN "ok" ELSE "notfound"))
             /\ IF failed
                THEN /\ Return(w, OtherErr("ownerDelete"))
                     /\ owner' = owner
                ELSE /\ owner' = [owner EXCEPT ![o] =
                                    IF @.exists THEN PersistOwner([@ EXCEPT !.deleting = TRUE])
                                    ELSE @]
                     /\ pc' = [pc EXCEPT ![w] = "update"]
                     /\ loc' = loc
    /\ UNCHANGED <<part, errs, front, ctl, numThreads, q, wkey, dones, phase, store, cache, deleter, stopped>>

\* OwnerDelete whose error does not end finalizing
OwnerDeleteContinuing(w) ==
    /\ pc[w] = "ownerDelete"
    /\ LET o == ObjOf(ctl, wkey[w])
           uid == loc[w].ws.ownerUID
           refused == owner[o].exists /\ owner[o].uid # uid
       IN  \E failed \in BOOLEAN :
             /\ calls' = Log(w, "OwnerDelete",
                             Outcome(IF failed \/ refused THEN "error"
                                     ELSE IF owner[o].exists THEN "ok" ELSE "notfound"))
             /\ owner' = [owner EXCEPT ![o] =
                            IF @.exists /\ ~failed /\ ~refused
                            THEN PersistOwner([@ EXCEPT !.deleting = TRUE])
                            ELSE @]
             /\ pc' = [pc EXCEPT ![w] = "update"]
             /\ loc' = loc
    /\ UNCHANGED <<part, errs, front, ctl, numThreads, q, wkey, dones, phase, store, cache, deleter, stopped>>

\* Delete of the owner under the UID precondition: not-found is swallowed
OwnerDelete(w) ==
    /\ pc[w] = "ownerDelete"
    /\ LET o == ObjOf(ctl, wkey[w])
           uid == loc[w].ws.ownerUID
       IN  \E failed \in BOOLEAN :
             /\ calls' = Log(w, "OwnerDelete",
                             Outcome(IF failed \/ (owner[o].exists /\ owner[o].uid # uid)
                                     THEN "error"
                                     ELSE IF owner[o].exists THEN "ok" ELSE "notfound"))
             /\ IF failed \/ (owner[o].exists /\ owner[o].uid # uid)
                THEN /\ Return(w, OtherErr("ownerDelete"))
                     /\ owner' = owner
                ELSE /\ owner' = [owner EXCEPT ![o] =
                                    IF @.exists THEN PersistOwner([@ EXCEPT !.deleting = TRUE])
                                    ELSE @]
                     /\ pc' = [pc EXCEPT ![w] = "update"]
                     /\ loc' = loc
    /\ UNCHANGED <<part, errs, front, ctl, numThreads, q, wkey, dones, phase, store, cache, deleter, stopped>>

\* LogicalClusters().Update(ws): persists the copy without the deletion
\* finalizer; its error, not-found included, is returned
UpdateLogicalCluster(w) ==
    /\ pc[w] = "update"
    /\ LET o == ObjOf(ctl, wkey[w])
           ws == loc[w].ws
       IN  \E failed \in BOOLEAN :
             LET a == IF failed THEN "error" ELSE WriteAnswer(store[o], ws.rv)
             IN  /\ calls' = Log(w, "Update", Outcome(IF a = "ok" THEN "ok" ELSE "error"))
                 /\ IF a = "ok"
                    THEN /\ store' = [store EXCEPT ![o] = Persist(ws, @.rv)]
                         /\ Return(w, NilErr)
                    ELSE /\ store' = store
                         /\ Return(w, OtherErr(a))
    /\ UNCHANGED <<part, errs, front, ctl, numThreads, q, wkey, dones, phase, cache, owner, deleter, stopped>>

-----------------------------------------------------------------------------
(* The specification *)

\* the steps of a worker of the logical-cluster deletion controller
LcdWorker(w) ==
    \/ Get(w)
    \/ process(w)
    \/ Delete(w)
    \/ patchCondition(w)
    \/ DeleteRoles(w)
    \/ DeleteBindings(w)
    \/ OwnerGet(w)
    \/ OwnerUpdate(w)
    \/ OwnerDelete(w)
    \/ UpdateLogicalCluster(w)
    \/ Requeue(w)
    \/ Done(w)

Next ==
    \/ Start
    \/ StartReturn
    \/ \E o \in Objs : InformerDeliver(o)
    \/ \E k \in Keys : TimerFire(k)
    \/ \E o \in Objs : EnvMarkDeleting(o)
    \/ \E o \in Objs : EnvDrain(o)
    \/ \E o \in Objs : EnvReplaceOwner(o)
    \/ \E w \in Workers : LcdWorker(w)

Spec == Init /\ [][Next]_vars

\* the worker pools of the three controllers
NextPool ==
    \/ Start
    \/ StartReturn
    \/ \E o \in Objs : InformerDeliver(o)
    \/ \E kind \in {"add", "update", "delete"}, o \in Objs : Notify(kind, o)
    \/ \E k \in Keys : TimerFire(k)
    \/ \E o \in Objs : EnvDrain(o)
    \/ \E w \in Workers :
         \/ Get(w)
         \/ MonitorProcess(w)
         \/ EndpointsProcess(w)
         \/ process(w)
         \/ Delete(w)
         \/ patchCondition(w)
         \/ DeleteRoles(w)
         \/ DeleteBindings(w)
         \/ UpdateLogicalCluster(w)
         \/ Requeue(w)
         \/ Done(w)

SpecPool == InitPool /\ [][NextPool]_vars

\* the logical-cluster deletion controller with one worker and one plain
\* logical cluster whose deleter reports an estimate of 0..MaxWaitEstimate
InitWait ==
    /\ ctl = "lcd"
    /\ numThreads = 1
    /\ q = EmptyQueue
    /\ pc = [w \in Workers |-> "unstarted"]
    /\ wkey = [w \in Workers |-> <<>>]
    /\ loc = [w \in Workers |-> EmptyLoc]
    /\ calls = [w \in Workers |-> <<>>]
    /\ dones = [w \in Workers |-> 0]
    /\ phase = "new"
    /\ store = [o \in Objs |-> IF o = "o1" THEN PlainLC ELSE NoLC]
    /\ owner = [o \in Objs |-> NoOwner]
    /\ cache = store
    /\ \E e \in 0..MaxWaitEstimate :
         deleter = [o \in Objs |-> IF o = "o1" THEN RemainingErr(e) ELSE NilErr]
    /\ stopped = {}
    /\ part = NoPartition
    /\ errs = 0
    /\ front = NoClient

NextWait ==
    \/ Start
    \/ StartReturn
    \/ \E o \in Objs : InformerDeliver(o)
    \/ \E k \in Keys : TimerFire(k)
    \/ \E w \in Workers :
         \/ Get(w)
         \/ process(w)
         \/ Delete(w)
         \/ patchCondition(w)
         \/ Requeue(w)
         \/ Done(w)

SpecWait == InitWait /\ [][NextWait]_vars

\* the step worker w takes is not one that ends its reconcile with the
\* error of a lister, RBAC, owner or store call
SucceedingStep(w) ==
    /\ LcdWorker(w)
    /\ pc'[w] = "requeue" => loc'[w].err \in {NilErr, loc'[w].deleteErr}

\* the calls of a reconcile that can fail, by the place of the worker
CallSites ==
    {"process", "patch", "roles", "bindings", "ownerGet", "ownerUpdate", "ownerDelete",
     "update"}

\* Scheduling: Start runs, a started worker keeps taking steps, timers fire,
\* the deleter's content drains, and no call fails forever when it can
\* succeed. Nothing is promised about the informer or about cancellation.
Fairness ==
    /\ WF_vars(Start)
    /\ WF_vars(\E k \in Keys : TimerFire(k))
    /\ WF_vars(\E o \in Objs : EnvDrain(o))
    /\ \A w \in {"w1"} :
        /\ WF_vars(LcdWorker(w))
        /\ \A p \in CallSites : SF_vars(pc[w] = p /\ SucceedingStep(w))

\* a deleting logical cluster that carries the deletion finalizer among
\* others, without owner or with a directly deletable owner that carries its
\* finalizer; the informer has not listed it yet
LiveShapes ==
    {sh \in InitShapes :
        /\ sh.lc.finalizers = <<"a", DeletionFinalizer, "b">>
        /\ sh.lc.ownerUID # "" =>
               (sh.ow.exists /\ sh.lc.directlyDeletable /\ OwnerFinalizer \in sh.ow.finalizers)}

InitLive ==
    /\ ctl = "lcd"
    /\ numThreads = 1
    /\ q = EmptyQueue
    /\ pc = [w \in Workers |-> "unstarted"]
    /\ wkey = [w \in Workers |-> <<>>]
    /\ loc = [w \in Workers |-> EmptyLoc]
    /\ calls = [w \in Workers |-> <<>>]
    /\ dones = [w \in Workers |-> 0]
    /\ phase = "new"
    /\ \E sh \in LiveShapes :
         /\ store = [o \in Objs |-> IF o = "o1" THEN [sh.lc EXCEPT !.deleting = TRUE]
                                   ELSE NoLC]
         /\ owner = [o \in Objs |-> IF o = "o1" THEN sh.ow ELSE NoOwner]
    /\ cache = [o \in Objs |-> NoLC]
    /\ deleter = [o \in Objs |-> IF o = "o1" THEN RemainingErr(1) ELSE NilErr]
    /\ stopped = {}
    /\ part = NoPartition
    /\ errs = 0
    /\ front = NoClient

NextLive ==
    \/ Start
    \/ StartReturn
    \/ \E o \in Objs : InformerDeliver(o)
    \/ \E k \in Keys : TimerFire(k)
    \/ \E o \in Objs : EnvDrain(o)
    \/ \E w \in Workers : LcdWorker(w)

SpecLive == InitLive /\ [][NextLive]_vars /\ Fairness

\* the end-to-end scenario: a deleting, directly deletable logical cluster
\* whose owner w1 on its home shard has the UID abc of the owner reference
\* and carries its finalizer; the deleter reports an estimate of 4 until the
\* content is gone
InitScenario ==
    /\ ctl = "lcd"
    /\ numThreads = 1
    /\ q = EmptyQueue
    /\ pc = [w \in Workers |-> "unstarted"]
    /\ wkey = [w \in Workers |-> <<>>]
    /\ loc = [w \in Workers |-> EmptyLoc]
    /\ calls = [w \in Workers |-> <<>>]
    /\ dones = [w \in Workers |-> 0]
    /\ phase = "new"
    /\ store = [o \in Objs |-> IF o = "o1"
                              THEN LC(TRUE, <<DeletionFinalizer>>, "abc", TRUE)
                              ELSE NoLC]
    /\ owner = [o \in Objs |-> IF o = "o1" THEN Owner("abc", {OwnerFinalizer}) ELSE NoOwner]
    /\ cache = [o \in Objs |-> NoLC]
    /\ deleter = [o \in Objs |-> IF o = "o1" THEN RemainingErr(4) ELSE NilErr]
    /\ stopped = {}
    /\ part = NoPartition
    /\ errs = 0
    /\ front = NoClient

NextScenario ==
    \/ Start
    \/ StartReturn
    \/ \E o \in Objs : InformerDeliver(o)
    \/ \E k \in Keys : TimerFire(k)
    \/ \E o \in Objs : EnvEmptied(o)
    \/ \E w \in Workers : LcdWorker(w)

SpecScenario == InitScenario /\ [][NextScenario]_vars

\* every finalizer list of up to MaxFinalizers entries, the deletion
\* finalizer absent, present once or repeated
FinalizerSeqs ==
    UNION {[1..n -> {"a", "b", DeletionFinalizer}] : n \in 0..MaxFinalizers}

\* a deleting logical cluster without owner, with any finalizer list, whose
\* content is gone
InitFinalizers ==
    /\ ctl = "lcd"
    /\ numThreads = 1
    /\ q = EmptyQueue
    /\ pc = [w \in Workers |-> "unstarted"]
    /\ wkey = [w \in Workers |-> <<>>]
    /\ loc = [w \in Workers |-> EmptyLoc]
    /\ calls = [w \in Workers |-> <<>>]
    /\ dones = [w \in Workers |-> 0]
    /\ phase = "new"
    /\ \E fs \in FinalizerSeqs :
         store = [o \in Objs |-> IF o = "o1" THEN LC(TRUE, fs, "", FALSE) ELSE NoLC]
    /\ owner = [o \in Objs |-> NoOwner]
    /\ cache = [o \in Objs |-> NoLC]
    /\ deleter = [o \in Objs |-> NilErr]
    /\ stopped = {}
    /\ part = NoPartition
    /\ errs = 0
    /\ front = NoClient

NextFinalizers ==
    \/ Start
    \/ \E o \in Objs : InformerDeliver(o)
    \/ \E k \in Keys : TimerFire(k)
    \/ \E w \in Workers :
         \/ Get(w)
         \/ process(w)
         \/ Delete(w)
         \/ DeleteRoles(w)
         \/ DeleteBindings(w)
         \/ UpdateLogicalCluster(w)
         \/ Requeue(w)
         \/ Done(w)

SpecFinalizers == InitFinalizers /\ [][NextFinalizers]_vars

-----------------------------------------------------------------------------
(* The worker pool and the queue (claims C1, C2, C10) *)

\* how often key k stands in the queue
Occurrences(qq, k) == Cardinality({i \in 1..Len(qq.queue) : qq.queue[i] = k})

\* C1: at most one worker at a time is between Get() returning a key and
\* Done(key): no two workers run the reconcile of the same key concurrently.
C1_AtMostOneInFlight ==
    \A w1, w2 \in Workers :
        (w1 # w2 /\ InFlight(w1) /\ InFlight(w2)) => wkey[w1] # wkey[w2]

\* a key was added again while a worker holds it, and the other worker is
\* idle at Get()
C1_Witness ==
    \E w1, w2 \in Workers :
        /\ w1 # w2
        /\ InFlight(w1) /\ wkey[w1] \in q.dirty
        /\ pc[w2] = "idle"
        /\ ctl = "lcd"

\* C2: a key added (once or more) while in flight is handed to no worker
\* until Done(key), and Done(key) queues it exactly once for all those adds;
\* a key no add arrived for is not queued by Done.
C2_CoalescedRedelivery ==
    /\ [](\A w \in Workers : InFlight(w) => ~InQueue(q, wkey[w]))
    /\ [](\A k \in Keys : Occurrences(q, k) <= 1)
    /\ [][\A w \in Workers :
            (pc[w] = "done" /\ pc'[w] = "idle") =>
                /\ Occurrences(q', wkey[w]) = (IF wkey[w] \in q.dirty THEN 1 ELSE 0)
                /\ wkey[w] \notin q'.processing]_vars

\* a worker is about to call Done for a key that was added while in flight
C2_Witness ==
    \E w \in Workers :
        /\ pc[w] = "done"
        /\ wkey[w] \in q.dirty
        /\ ctl = "lcd"

-----------------------------------------------------------------------------
(* The finalizing step (claims C3 to C6) *)

\* the calls finalizeWorkspace makes before the logical cluster's Update
FinalizeCalls == {"DeleteRoles", "DeleteBindings", "OwnerGet", "OwnerUpdate", "OwnerDelete"}

\* the error finalizeWorkspace returns when that call fails
FinalizeError(op) ==
    CASE op = "DeleteRoles" -> OtherErr("clusterroles")
      [] op = "DeleteBindings" -> OtherErr("clusterrolebindings")
      [] op = "OwnerGet" -> OtherErr("ownerGet")
      [] op = "OwnerUpdate" -> OtherErr("ownerUpdate")
      [] OTHER -> OtherErr("ownerDelete")

RequeueCalls == {"Forget", "AddAfter", "AddRateLimited"}

\* the stored finalizer list of o changes in this step
FinalizersChange(o) ==
    store'[o].finalizers # store[o].finalizers \/ store'[o].exists # store[o].exists

\* worker w's Update of the logical cluster is accepted in this step
UpdateAccepted(w) ==
    /\ pc[w] = "update"
    /\ pc'[w] = "requeue"
    /\ loc'[w].err = NilErr

\* C3: the Update that persists the logical cluster without the deletion
\* finalizer is issued only in a reconcile whose deleter call returned nil,
\* and the stored finalizer list changes in no other step than an accepted
\* Update of such a reconcile; a reconcile whose deleter returned an error
\* leaves it as it is.
C3_UpdateOnlyAfterDeleterSuccess ==
    /\ [](\A w \in Workers :
            (Issued(calls[w], "Update") \/ pc[w] = "update") =>
                /\ loc[w].deleteErr = NilErr
                /\ \E i \in 1..Len(calls[w]) : calls[w][i] = Call("Delete", 1))
    /\ [][\A o \in Objs :
            FinalizersChange(o) =>
                \E w \in Workers :
                    /\ UpdateAccepted(w)
                    /\ ObjOf(ctl, wkey[w]) = o
                    /\ loc[w].deleteErr = NilErr
                    /\ \E i \in 1..Len(calls[w]) : calls[w][i] = Call("Delete", 1)]_vars

\* a reconcile whose deleter returned nil has had its Update accepted, and
\* the logical cluster is gone from the store
C3_Witness ==
    \E w \in Workers :
        /\ pc[w] = "requeue"
        /\ Issued(calls[w], "Update")
        /\ loc[w].err = NilErr
        /\ loc[w].old.finalizers = <<DeletionFinalizer>>
        /\ ~store[ObjOf(ctl, wkey[w])].exists

\* the owner fetched by worker w exists under another UID than the owner
\* reference of the logical cluster records
ForeignOwner(w) ==
    /\ loc[w].own.exists
    /\ loc[w].ws.ownerUID # ""
    /\ loc[w].own.uid # loc[w].ws.ownerUID

\* C4: when the owner fetched from its home shard exists under a UID that
\* differs from the owner reference's, no Update and no Delete of the owner
\* is issued and the finalizing step returns a non-nil error.
C4_UIDGuard ==
    \A w \in Workers :
        ForeignOwner(w) =>
            /\ ~Issued(calls[w], "OwnerUpdate")
            /\ ~Issued(calls[w], "OwnerDelete")
            /\ pc[w] \in {"requeue", "done"}
            /\ loc[w].err.kind = "other"
            /\ owner[ObjOf(ctl, wkey[w])] = loc[w].own

\* the reconcile has fetched the replaced owner, which carries the finalizer
\* and is not deleting, for a directly deletable logical cluster
C4_Witness ==
    \E w \in Workers :
        /\ ForeignOwner(w)
        /\ pc[w] = "requeue"
        /\ OwnerFinalizer \in loc[w].own.finalizers
        /\ loc[w].ws.directlyDeletable

\* C5: when a call of the finalizing step fails with an unexpected error
\* (RBAC DeleteCollection, owner Get, owner Update, owner Delete), that call
\* is the step's last, its error is what the reconcile returns, the Update of
\* the logical cluster is not issued, the stored object that was read still
\* carries the deletion finalizer, and the key is requeued rate-limited; the
\* deletion finalizer leaves the store only by an accepted Update.
C5_FinalizeErrorAborts ==
    /\ [](\A w \in Workers : \A i \in 1..Len(calls[w]) :
            (calls[w][i].op \in FinalizeCalls /\ calls[w][i].arg = 0) =>
                /\ pc[w] \in {"requeue", "done"}
                /\ loc[w].err = FinalizeError(calls[w][i].op)
                /\ ~Issued(calls[w], "Update")
                /\ \A j \in (i + 1)..Len(calls[w]) : calls[w][j].op = "AddRateLimited"
                /\ pc[w] = "done" => Count(calls[w], "AddRateLimited") = 1
                /\ LET stored == store[ObjOf(ctl, wkey[w])]
                   IN  (stored.exists /\ stored.rv = loc[w].old.rv) =>
                           HasDeletionFinalizer(stored))
    /\ [][\A o \in Objs :
            (HasDeletionFinalizer(store[o]) /\ ~HasDeletionFinalizer(store'[o])) =>
                \E w \in Workers : UpdateAccepted(w) /\ ObjOf(ctl, wkey[w]) = o]_vars

\* the owner's Delete has failed after its Update went through, and the key
\* is requeued rate-limited with the deletion finalizer still stored
C5_Witness ==
    \E w \in Workers :
        /\ pc[w] = "done"
        /\ loc[w].err = OtherErr("ownerDelete")
        /\ Issued(calls[w], "OwnerUpdate")
        /\ Issued(calls[w], "AddRateLimited")
        /\ HasDeletionFinalizer(store[ObjOf(ctl, wkey[w])])

\* the reconcile of worker w began with an owner on its home shard whose UID
\* differs from the one the logical cluster records
Replaced(w) ==
    /\ loc[w].ws.ownerUID # ""
    /\ loc[w].ownerAtStart \notin {"", loc[w].ws.ownerUID}

-----------------------------------------------------------------------------
(* The requeue decision (claims C7 to C9) *)

\* how many requeue calls of each kind the log of worker w holds
Requeues(w) ==
    [op \in RequeueCalls |-> Count(calls[w], op)]

\* C7: in the logical-cluster deletion worker no requeue call is made while
\* the reconcile runs; when it has returned, exactly one call is made before
\* Done(key), chosen by the result alone: Forget on nil, AddAfter with the
\* wait on a ResourcesRemainingError, AddRateLimited on any other error.
C7_RequeueByResult ==
    \A w \in Workers :
        /\ (InFlight(w) /\ pc[w] # "done") =>
               Requeues(w) = [op \in RequeueCalls |-> 0]
        /\ pc[w] = "done" =>
               /\ dones[w] = 0
               /\ wkey[w] \in q.processing
               /\ calls[w][Len(calls[w])].op \in RequeueCalls
               /\ Requeues(w) =
                      [op \in RequeueCalls |->
                          IF op = (CASE loc[w].err.kind = "nil" -> "Forget"
                                     [] loc[w].err.kind = "remaining" -> "AddAfter"
                                     [] OTHER -> "AddRateLimited")
                          THEN 1 ELSE 0]
               /\ loc[w].err.kind = "nil" => q.failures[wkey[w]] = 0
               /\ loc[w].err.kind = "other" => q.failures[wkey[w]] >= 1

\* the reconcile returned the deleter's ResourcesRemainingError and the
\* worker has called AddAfter, Done(key) still to come
C7_Witness ==
    \E w \in Workers :
        /\ pc[w] = "done"
        /\ loc[w].err.kind = "remaining"
        /\ Count(calls[w], "AddAfter") = 1
        /\ dones[w] = 0

\* C8 as stated: whenever the deleter returned a ResourcesRemainingError the
\* reconcile returns it, and the key is requeued with AddAfter and not
\* rate-limited, a condition patch attempted or not.
C8_RemainingAlwaysSurfaced ==
    \A w \in Workers :
        (pc[w] \in {"requeue", "done"} /\ loc[w].deleteErr.kind = "remaining") =>
            /\ loc[w].err = loc[w].deleteErr
            /\ pc[w] = "done" =>
                   /\ Issued(calls[w], "AddAfter")
                   /\ ~Issued(calls[w], "AddRateLimited")

\* C8: when the deleter returned ResourcesRemainingError{estimate} and the
\* condition patch was not needed or was accepted, the reconcile returns
\* that error and the key is requeued with one AddAfter of estimate/2+1
\* seconds, not rate-limited; when the patch is refused the reconcile returns
\* the patch's error and the key is requeued with AddRateLimited.
C8_RemainingSurfacedUnlessPatchFails ==
    \A w \in Workers :
        (pc[w] \in {"requeue", "done"} /\ loc[w].deleteErr.kind = "remaining") =>
            IF \E i \in 1..Len(calls[w]) : calls[w][i] = Call("Patch", 0)
            THEN /\ loc[w].err.kind = "other"
                 /\ pc[w] = "done" =>
                        /\ Count(calls[w], "AddRateLimited") = 1
                        /\ ~Issued(calls[w], "AddAfter")
            ELSE /\ loc[w].err = loc[w].deleteErr
                 /\ pc[w] = "done" =>
                        /\ Count(calls[w], "AddAfter") = 1
                        /\ calls[w][Len(calls[w])].arg
                               = loc[w].deleteErr.estimate \div 2 + 1
                        /\ ~Issued(calls[w], "AddRateLimited")
                        /\ q.shuttingDown \/ wkey[w] \in q.waiting \cup q.dirty

\* the condition changed, its patch was accepted, and the key is requeued
\* with AddAfter
C8_Witness ==
    \E w \in Workers :
        /\ pc[w] = "done"
        /\ loc[w].deleteErr.kind = "remaining"
        /\ \E i \in 1..Len(calls[w]) : calls[w][i] = Call("Patch", 1)
        /\ Issued(calls[w], "AddAfter")
        /\ store[ObjOf(ctl, wkey[w])].conditions.reason = "ResourcesRemaining"

\* C9: the delay scheduled for a ResourcesRemainingError of estimate e is the
\* t with 2(t-1) <= e <= 2t-1, that is floor(e/2)+1 seconds: 5 for 9, 3 for
\* 4, 1 for 0; it is at least 1 and does not decrease when e grows.
C9_WaitIsHalfPlusOne ==
    /\ \A w \in Workers : \A i \in 1..Len(calls[w]) :
           calls[w][i].op = "AddAfter" =>
               LET e == loc[w].deleteErr.estimate
                   t == calls[w][i].arg
               IN  /\ loc[w].deleteErr.kind = "remaining"
                   /\ 2 * (t - 1) <= e /\ e <= 2 * t - 1
                   /\ t >= 1
                   /\ e = 9 => t = 5
                   /\ e = 4 => t = 3
                   /\ e = 0 => t = 1
    /\ \A e \in 0..MaxWaitEstimate :
           /\ WaitSeconds(e) >= 1
           /\ WaitSeconds(e) <= WaitSeconds(e + 1)
           /\ WaitSeconds(e + 1) <= WaitSeconds(e) + 1

\* the deleter reported an estimate of 9 and the worker has called AddAfter
\* with 5 seconds
C9_Witness ==
    \E w \in Workers :
        /\ pc[w] = "done"
        /\ loc[w].deleteErr = RemainingErr(9)
        /\ calls[w][Len(calls[w])] = Call("AddAfter", 5)

\* C10: in each controller a Get() that returns a key is followed by exactly
\* one Done(key) on every path, so a key is in flight only while a worker
\* holds it; Done is not called when Get() reports shutdown.
C10_DoneOncePerGet ==
    /\ \A w \in Workers :
        /\ InFlight(w) => (dones[w] = 0 /\ wkey[w] \in q.processing)
        /\ (pc[w] = "idle" /\ wkey[w] # <<>>) => dones[w] = 1
        /\ pc[w] = "stopped" => dones[w] = 0
    /\ \A k \in q.processing : \E w \in Workers : InFlight(w) /\ wkey[w] = k

\* a worker is back at Get() after the reconcile of the unparsable key, and
\* the key is released
C10_Witness ==
    \E w \in Workers :
        /\ pc[w] = "idle"
        /\ dones[w] = 1
        /\ ~SplitKey(ctl, wkey[w]).ok
        /\ wkey[w] \notin q.processing
        /\ ctl = "endpoints"

-----------------------------------------------------------------------------
(* Convergence (claims C11, C12) *)

\* the stored logical cluster of worker w's key already carries the
\* condition set the deleter left on the copy, and not by a patch of this
\* reconcile
AlreadyStored(w) ==
    LET stored == store[ObjOf(ctl, wkey[w])]
    IN  /\ pc[w] \in {"requeue", "done"}
        /\ loc[w].deleteErr.kind # "nil"
        /\ stored.exists
        /\ stored.conditions = loc[w].ws.conditions
        /\ \A i \in 1..Len(calls[w]) : calls[w][i] # Call("Patch", 1)

\* C11 as stated: a reconcile that finds the deleter's answer unchanged and
\* its condition set already stored issues no Patch and returns the
\* deleter's error again.
C11_RepeatIsSilent ==
    \A w \in Workers :
        AlreadyStored(w) =>
            /\ ~Issued(calls[w], "Patch")
            /\ loc[w].err = loc[w].deleteErr

\* C11: a reconcile that reads from the lister the logical cluster as it is
\* stored, the condition set the deleter leaves already in it, issues no
\* Patch, leaves the store as it is, returns the deleter's error, and
\* requeues the key as that error asks: the same outcome as the reconcile
\* that stored the condition set.
C11_RepeatIsSilentOnFreshRead ==
    \A w \in Workers :
        (AlreadyStored(w) /\ store[ObjOf(ctl, wkey[w])].rv = loc[w].old.rv) =>
            /\ ~Issued(calls[w], "Patch")
            /\ loc[w].err = loc[w].deleteErr
            /\ store[ObjOf(ctl, wkey[w])] = loc[w].old
            /\ \A i \in 1..Len(calls[w]) :
                   calls[w][i].op \in {"Get", "Delete", "AddAfter", "AddRateLimited"}
            /\ pc[w] = "done" =>
                   calls[w][Len(calls[w])] =
                       IF loc[w].deleteErr.kind = "remaining"
                       THEN Call("AddAfter", loc[w].deleteErr.estimate \div 2 + 1)
                       ELSE Call("AddRateLimited", 0)

\* the reconcile after the one that stored "resources remaining": the same
\* estimate, no Patch, the key requeued with AddAfter again
C11_Witness ==
    \E w \in Workers :
        /\ pc[w] = "done"
        /\ AlreadyStored(w)
        /\ loc[w].old.conditions.reason = "ResourcesRemaining"
        /\ store[ObjOf(ctl, wkey[w])] = loc[w].old
        /\ loc[w].err.kind = "remaining"
        /\ Issued(calls[w], "AddAfter")

\* the key of a deleting logical cluster that carries the deletion finalizer
\* stands in the queue
Enqueued(o) ==
    /\ store[o].deleting
    /\ HasDeletionFinalizer(store[o])
    /\ InQueue(q, KeyFunc(ctl, o))

\* the stored logical cluster carries no deletion finalizer, or Start has
\* returned
Finalized(o) == ~HasDeletionFinalizer(store[o]) \/ phase = "returned"

-----------------------------------------------------------------------------
(* The end-to-end scenario (claim C13) *)

\* the position of the first call of op in a log, 0 when there is none
Pos(log, op) ==
    IF Issued(log, op)
    THEN CHOOSE i \in 1..Len(log) :
            log[i].op = op /\ \A j \in 1..(i - 1) : log[j].op # op
    ELSE 0

\* op1 is called in the log, and before op2
Before(log, op1, op2) == Issued(log, op1) /\ Pos(log, op1) < Pos(log, op2)

\* the calls of the reconcile that finalizes the scenario's logical cluster
\* when nothing fails
ScenarioCalls ==
    <<Call("Get", 0), Call("Delete", 1), Call("DeleteRoles", 1), Call("DeleteBindings", 1),
      Call("OwnerGet", 1), Call("OwnerUpdate", 1), Call("OwnerDelete", 1), Call("Update", 1)>>

-----------------------------------------------------------------------------
(* The finalizer list and the condition patch (claims C14, C15) *)

\* how often x stands in the list fs
Times(fs, x) == Cardinality({i \in 1..Len(fs) : fs[i] = x})

\* list new is list old without its i-th entry
Without(old, new, i) ==
    /\ Len(new) = Len(old) - 1
    /\ \A j \in 1..(i - 1) : new[j] = old[j]
    /\ \A j \in i..Len(new) : new[j] = old[j + 1]

\* C14: the finalizer list finalizing goes on with, and the list its Update
\* stores, is the list as read without the first entry that equals the
\* deletion finalizer: every other entry stays, in its order ([a, deletion,
\* b] becomes [a, b]), a second deletion-finalizer entry included.
C14_FirstMatchRemoved ==
    /\ [](\A w \in Workers :
            pc[w] \in {"roles", "bindings", "update"} =>
                LET old == loc[w].old.finalizers
                    new == loc[w].ws.finalizers
                IN  /\ \E i \in 1..Len(old) :
                          /\ old[i] = DeletionFinalizer
                          /\ \A j \in 1..(i - 1) : old[j] # DeletionFinalizer
                          /\ Without(old, new, i)
                    /\ Times(new, DeletionFinalizer) = Times(old, DeletionFinalizer) - 1
                    /\ \A x \in {"a", "b"} : Times(new, x) = Times(old, x)
                    /\ old = <<"a", DeletionFinalizer, "b">> => new = <<"a", "b">>)
    /\ [][\A w \in Workers :
            UpdateAccepted(w) =>
                LET stored == store'[ObjOf(ctl, wkey[w])]
                IN  IF loc[w].ws.finalizers = <<>> THEN ~stored.exists
                    ELSE stored.finalizers = loc[w].ws.finalizers]_vars

\* a list with the deletion finalizer twice was read, and the Update has
\* stored it with the second entry left
C14_Witness ==
    \E w \in Workers :
        /\ pc[w] = "requeue"
        /\ Issued(calls[w], "Update")
        /\ loc[w].err = NilErr
        /\ loc[w].old.finalizers = <<DeletionFinalizer, "a", DeletionFinalizer>>
        /\ store[ObjOf(ctl, wkey[w])].finalizers = <<"a", DeletionFinalizer>>

\* the reconcile of w issued a Patch in this step
PatchIssued(w) ==
    /\ Len(calls'[w]) = Len(calls[w]) + 1
    /\ calls'[w][Len(calls'[w])].op = "Patch"

\* C15: patchCondition issues no call when the condition set the deleter's
\* error leaves equals the condition set of the logical cluster as read; a
\* Patch is issued only by patchCondition, and only when the two differ.
C15_NoWriteOnNoChange ==
    /\ [][\A w \in Workers :
            /\ (pc[w] = "patch" /\ pc'[w] # "patch"
                  /\ loc[w].old.conditions = loc[w].ws.conditions) =>
                   (calls'[w] = calls[w] /\ store' = store)
            /\ PatchIssued(w) =>
                   /\ pc[w] = "patch"
                   /\ loc[w].old.conditions # loc[w].ws.conditions
                   /\ loc[w].ws.conditions =
                          DeleterCondition(loc[w].deleteErr, loc[w].old.conditions)]_vars
    /\ [](\A w \in Workers :
            (pc[w] \in {"requeue", "done"} /\ Issued(calls[w], "Patch")) =>
                loc[w].old.conditions # loc[w].ws.conditions)

\* the deleter's error left the condition set as it was read, with the
\* estimate it carried already, and the reconcile went on to the requeue
\* with no Patch
C15_Witness ==
    \E w \in Workers :
        /\ pc[w] = "requeue"
        /\ loc[w].deleteErr.kind = "remaining"
        /\ loc[w].old.conditions = [reason |-> "ResourcesRemaining", n |-> loc[w].deleteErr.estimate]
        /\ loc[w].ws.conditions = loc[w].old.conditions
        /\ Issued(calls[w], "Delete")
        /\ ~Issued(calls[w], "Patch")

-----------------------------------------------------------------------------
(* Key isolation (claim C16) *)

\* one worker and two deleting logical clusters: o1's deleter fails on
\* every reconcile, or reports remaining content on every reconcile; o2's
\* content is gone
InitIsolation ==
    /\ ctl = "lcd"
    /\ numThreads = 1
    /\ q = EmptyQueue
    /\ pc = [w \in Workers |-> "unstarted"]
    /\ wkey = [w \in Workers |-> <<>>]
    /\ loc = [w \in Workers |-> EmptyLoc]
    /\ calls = [w \in Workers |-> <<>>]
    /\ dones = [w \in Workers |-> 0]
    /\ phase = "new"
    /\ store = [o \in Objs |-> IF o \in {"o1", "o2"}
                              THEN LC(TRUE, <<DeletionFinalizer>>, "", FALSE) ELSE NoLC]
    /\ owner = [o \in Objs |-> NoOwner]
    /\ cache = [o \in Objs |-> NoLC]
    /\ \E e \in {OtherErr("deleter"), RemainingErr(MaxEstimate)} :
         deleter = [o \in Objs |-> IF o = "o1" THEN e ELSE NilErr]
    /\ stopped = {}
    /\ part = NoPartition
    /\ errs = 0
    /\ front = NoClient

\* the worker of the logical-cluster deletion controller on logical
\* clusters without owner
PlainWorker(w) ==
    \/ Get(w)
    \/ process(w)
    \/ Delete(w)
    \/ patchCondition(w)
    \/ DeleteRoles(w)
    \/ DeleteBindings(w)
    \/ UpdateLogicalCluster(w)
    \/ Requeue(w)
    \/ Done(w)

NextIsolation ==
    \/ Start
    \/ StartReturn
    \/ \E o \in Objs : InformerDeliver(o)
    \/ \E k \in Keys : TimerFire(k)
    \/ \E w \in Workers : PlainWorker(w)

\* Scheduling: the started worker keeps taking steps. Nothing is promised
\* about timers, the informer or cancellation.
FairWorker == WF_vars(PlainWorker("w1"))

SpecIsolation == InitIsolation /\ [][NextIsolation]_vars /\ FairWorker

\* worker w reconciles the key of o
Reconciling(w, o) == pc[w] = "process" /\ wkey[w] = KeyFunc(ctl, o)

\* C16: with a single worker, a key that stands in the queue while the
\* controller runs is eventually reconciled, whatever other key fails on
\* every reconcile or waits for its delayed requeue: a key whose requeue is
\* pending is held by a timer (unless the queue is shut down and ignores
\* the requeue), and the worker that requeued it goes on to the next Get.
C16_KeyIsolation ==
    /\ \A o \in Objs :
         (phase = "running" /\ InQueue(q, KeyFunc(ctl, o))) ~>
             (\E w \in Workers : Reconciling(w, o))
    /\ [][\A w \in Workers :
            (pc[w] = "requeue" /\ pc'[w] # "requeue") =>
                /\ pc'[w] = "done"
                /\ loc[w].err.kind # "nil" =>
                       (q.shuttingDown \/ wkey[w] \in q'.waiting)]_vars

\* o1 has failed often enough for the longest backoff and waits for its
\* next retry, while the only worker finalizes o2
C16_Witness ==
    /\ numThreads = 1
    /\ KeyFunc(ctl, "o1") \in q.waiting
    /\ KeyFunc(ctl, "o1") \notin q.processing
    /\ q.failures[KeyFunc(ctl, "o1")] = MaxFailures
    /\ pc["w1"] = "roles"
    /\ wkey["w1"] = KeyFunc(ctl, "o2")

-----------------------------------------------------------------------------
(* Notifications and unparsable keys (claims C17, C18) *)

\* the informer notifies the handler that o is deleted
DeleteNotification(o) == InformerDeliver(o) /\ cache[o].exists /\ ~store[o].exists

C18_UnparsableKeyDropped ==
    \A w \in Workers :
        (pc[w] = "done" /\ ~SplitKey(ctl, wkey[w]).ok) =>
            /\ loc[w].err = NilErr
            /\ calls[w][Len(calls[w])] = Call("Forget", 0)
            /\ ~Issued(calls[w], "AddRateLimited")
            /\ ~Issued(calls[w], "AddAfter")

-----------------------------------------------------------------------------
(* Shutdown (claim C19) *)

\* a worker of any of the three controllers
PoolWorker(w) ==
    \/ Get(w)
    \/ MonitorProcess(w)
    \/ EndpointsProcess(w)
    \/ process(w)
    \/ Delete(w)
    \/ patchCondition(w)
    \/ DeleteRoles(w)
    \/ DeleteBindings(w)
    \/ UpdateLogicalCluster(w)
    \/ Requeue(w)
    \/ Done(w)

\* each of the three controllers with its workers; the informers notify of
\* o1 and o2 only, and for the logical-cluster deletion controller o1 is a
\* deleting logical cluster whose deleter fails for good or finds no content
InitShutdown ==
    /\ ctl \in Controllers
    /\ numThreads = IF ctl = "quota" THEN 1 ELSE Cardinality(Workers)
    /\ q = EmptyQueue
    /\ pc = [w \in Workers |-> "unstarted"]
    /\ wkey = [w \in Workers |-> <<>>]
    /\ loc = [w \in Workers |-> EmptyLoc]
    /\ calls = [w \in Workers |-> <<>>]
    /\ dones = [w \in Workers |-> 0]
    /\ phase = "new"
    /\ store = [o \in Objs |-> IF ctl = "lcd" /\ o = "o1" THEN PlainLC ELSE NoLC]
    /\ owner = [o \in Objs |-> NoOwner]
    /\ cache = store
    /\ \E e \in {NilErr, OtherErr("deleter")} :
         deleter = [o \in Objs |-> IF ctl = "lcd" /\ o = "o1" THEN e ELSE NilErr]
    /\ stopped = {}
    /\ part = NoPartition
    /\ errs = 0
    /\ front = NoClient

NextShutdown ==
    \/ Start
    \/ StartReturn
    \/ \E o \in {"o1", "o2"} : InformerDeliver(o)
    \/ \E kind \in {"add", "update", "delete", "tombstone"}, o \in {"o1", "o2"} :
         Notify(kind, o)
    \/ \E k \in Keys : TimerFire(k)
    \/ \E w \in Workers : PoolWorker(w)

\* Scheduling: every started worker keeps taking steps. Nothing is promised
\* about the informers, the timers or the moment of cancellation.
FairPool == \A w \in Workers : WF_vars(PoolWorker(w))

SpecShutdown == InitShutdown /\ [][NextShutdown]_vars /\ FairPool

\* C19: when Start returns the queue is shut down; a worker stops only from
\* a Get that reports shutdown, between two reconciles, so a reconcile in
\* flight runs on to its Done; every worker Start launched eventually
\* stops; a stopped worker starts no reconcile again.
C19_Shutdown ==
    /\ [](phase = "returned" => q.shuttingDown)
    /\ [][\A w \in Workers :
            /\ (pc'[w] = "stopped" /\ pc[w] # "stopped") =>
                   (pc[w] = "idle" /\ q.shuttingDown /\ q.queue = <<>>)
            /\ pc[w] = "stopped" => (pc'[w] = "stopped" /\ calls'[w] = calls[w])
            /\ (InFlight(w) /\ pc'[w] # pc[w]) => pc'[w] # "stopped"]_vars
    /\ \A w \in Workers :
         (phase = "returned" /\ pc[w] # "unstarted") ~> pc[w] = "stopped"

\* Start has returned, one worker has seen the shutdown and stopped, and the
\* other is still in its reconcile, its requeue decision taken
C19_Witness ==
    /\ phase = "returned"
    /\ q.shuttingDown
    /\ pc["w1"] = "stopped"
    /\ calls["w1"] = <<Call("GetShutdown", 0)>>
    /\ pc["w2"] = "done"

-----------------------------------------------------------------------------
(* The kubequota deletion monitor (claim C20) *)

\* C20: in the kubequota monitor a delete notification or a tombstone marks
\* the key of the object for delivery while the queue is not shut down, and
\* an add or update notification leaves the queue as it is; once the
\* monitor runs, a key standing in the queue is eventually reconciled by a
\* call of stopFunc with the cluster name of its object; the reconcile
\* returns nil, so no key is ever requeued, with backoff or after a delay.
C20_DeletionMonitor ==
    /\ [][\A o \in Objs :
            ctl = "quota" =>
              /\ ((Notify("delete", o) \/ Notify("tombstone", o)) /\ ~q.shuttingDown) =>
                     KeyFunc(ctl, o) \in q'.dirty
              /\ (Notify("add", o) \/ Notify("update", o)) => (q' = q /\ stopped' = stopped)]_vars
    /\ \A o \in {"o1", "o2"} :
         (ctl = "quota" /\ phase = "running" /\ InQueue(q, KeyFunc(ctl, o))) ~>
             (\E w \in Workers :
                 /\ pc[w] = "requeue"
                 /\ wkey[w] = KeyFunc(ctl, o)
                 /\ calls[w] = <<Call("Get", 0), Call("stopFunc", 0)>>
                 /\ <<o>> \in stopped)
    /\ [](ctl = "quota" =>
            /\ \A w \in Workers :
                 /\ loc[w].err = NilErr
                 /\ ~Issued(calls[w], "AddRateLimited")
                 /\ ~Issued(calls[w], "AddAfter")
            /\ q.waiting = {}
            /\ \A k \in Keys : q.failures[k] = 0
            /\ stopped \subseteq {<<o>> : o \in Objs})

\* the monitor has called stopFunc for o1, whose deletion was notified, and
\* the key of o2, deleted meanwhile, waits in the queue
C20_Witness ==
    /\ ctl = "quota"
    /\ phase = "running"
    /\ pc["w1"] = "requeue"
    /\ wkey["w1"] = KeyFunc(ctl, "o1")
    /\ calls["w1"] = <<Call("Get", 0), Call("stopFunc", 0)>>
    /\ stopped = {<<"o1">>}
    /\ q.queue = <<KeyFunc(ctl, "o2")>>

-----------------------------------------------------------------------------
(* Shard partitioning (claims C21, C22) *)

\* a shard's label map from its labels
Shard(region, cloud, az) ==
    [l \in {"region", "cloud", "az", "environment"} |->
        CASE l = "region" -> region
          [] l = "cloud" -> cloud
          [] l = "az" -> az
          [] OTHER -> "prod"]

\* the five shards of TestPartition
TestShards ==
    <<Shard("Europe", "Azure", "EU-1"), Shard("Europe", "Azure", "EU-2"),
      Shard("Europe", "Azure", "EU-3"), Shard("Europe", "AWS", "EU-3"),
      Shard("Asia", "Azure", "cn-west-1")>>

\* every label map over region, cloud and environment, each label carried
\* or not
ShardShapes ==
    UNION {{f \in [D -> {"Europe", "Asia", "Azure", "AWS", "prod"}] :
               \A l \in D : f[l] \in LabelValues(l)} :
           D \in SUBSET {"region", "cloud", "environment"}}

\* the shard lists partition is applied to
ShardLists == {TestShards} \cup UNION {[1..n -> ShardShapes] : n \in 0..MaxShards}

\* the dimension lists partition is applied to
DimensionLists ==
    {<<>>, <<"doesnotexist">>, <<"region">>, <<"cloud">>, <<"region", "cloud">>,
     <<"cloud", "region">>}

\* shardSelectorLabels: nil, or environment=prod
SelectorLabels == {<<>>, [l \in {"environment"} |-> "prod"]}

InitPartition ==
    /\ ctl = "lcd"
    /\ numThreads = 1
    /\ q = EmptyQueue
    /\ pc = [w \in Workers |-> "unstarted"]
    /\ wkey = [w \in Workers |-> <<>>]
    /\ loc = [w \in Workers |-> EmptyLoc]
    /\ calls = [w \in Workers |-> <<>>]
    /\ dones = [w \in Workers |-> 0]
    /\ phase = "new"
    /\ store = [o \in Objs |-> NoLC]
    /\ owner = [o \in Objs |-> NoOwner]
    /\ cache = store
    /\ deleter = [o \in Objs |-> NilErr]
    /\ stopped = {}
    /\ errs = 0
    /\ front = NoClient
    /\ \E shards \in ShardLists, dimensions \in DimensionLists, sel \in SelectorLabels :
         part = [at |-> "args", shards |-> shards, dimensions |-> dimensions,
                 selector |-> sel]

\* matchLabelsMap = partition(shards, dimensions, shardSelectorLabels)
Partition ==
    /\ part.at = "args"
    /\ part' = [at |-> "done", shards |-> part.shards, dimensions |-> part.dimensions,
                selector |-> part.selector,
                result |-> partition(part.shards, part.dimensions, part.selector)]
    /\ UNCHANGED <<errs, front, ctl, numThreads, q, pc, wkey, loc, calls, dones, phase, store, cache, owner, deleter, stopped>>

SpecPartition == InitPartition /\ [][Partition]_vars

\* the values shard sh carries for the labels in dims
Carried(sh, dims) == [l \in DOMAIN sh \cap dims |-> sh[l]]

\* the distinct combinations of values the shards carry for the dimensions
Combinations(shards, dimensions) ==
    {Carried(shards[i], {dimensions[j] : j \in 1..Len(dimensions)}) : i \in 1..Len(shards)}
        \ {<<>>}

\* the label selectors partition returned
Selectors == {part.result[k] : k \in DOMAIN part.result}

-----------------------------------------------------------------------------
(* The finalizing step and the owner (claims C23 to C29) *)

\* the outcome of the call of op in the log: 1 accepted, 2 not found, 0 an
\* error
Result(log, op) == log[Pos(log, op)].arg

\* C23: in a reconcile of a logical cluster with an owner, the Update that
\* removes the deletion finalizer comes after every other call of the
\* finalizing step and is followed by the requeue decision only; both RBAC
\* deletions were accepted or found nothing; the owner was not found and
\* left alone, or found under the owner reference's UID and left without
\* its finalizer, and deleted (accepted or not found) exactly when the
\* logical cluster is directly deletable and the owner was not deleting.
C23_UpdateIsLastWrite ==
    \A w \in Workers :
        (Issued(calls[w], "Update") /\ loc[w].ws.ownerUID # "") =>
            LET log == calls[w]
            IN  /\ Count(log, "Update") = 1
                /\ \A op \in FinalizeCalls : Issued(log, op) => Before(log, op, "Update")
                /\ \A i \in (Pos(log, "Update") + 1)..Len(log) : log[i].op \in RequeueCalls
                /\ Issued(log, "DeleteRoles") /\ Result(log, "DeleteRoles") \in {1, 2}
                /\ Issued(log, "DeleteBindings") /\ Result(log, "DeleteBindings") \in {1, 2}
                /\ Issued(log, "OwnerGet")
                /\ \/ /\ Result(log, "OwnerGet") = 2
                      /\ ~Issued(log, "OwnerUpdate")
                      /\ ~Issued(log, "OwnerDelete")
                   \/ /\ Result(log, "OwnerGet") = 1
                      /\ loc[w].own.uid = loc[w].ws.ownerUID
                      /\ OwnerFinalizer \notin loc[w].own.finalizers
                      /\ Issued(log, "OwnerUpdate") => Result(log, "OwnerUpdate") = 1
                      /\ Issued(log, "OwnerDelete") <=>
                             (loc[w].ws.directlyDeletable /\ ~loc[w].own.deleting)
                      /\ Issued(log, "OwnerDelete") => Result(log, "OwnerDelete") \in {1, 2}

\* the owner was found, lost its finalizer and was deleted, and then the
\* Update stored the logical cluster without the deletion finalizer
C23_Witness ==
    \E w \in Workers :
        /\ pc[w] = "requeue"
        /\ loc[w].err = NilErr
        /\ loc[w].ws.ownerUID = "abc"
        /\ Issued(calls[w], "OwnerUpdate") /\ Issued(calls[w], "OwnerDelete")
        /\ Result(calls[w], "OwnerUpdate") = 1
        /\ Result(calls[w], "OwnerDelete") = 1
        /\ calls[w][Len(calls[w])] = Call("Update", 1)
        /\ store[ObjOf(ctl, wkey[w])].finalizers = <<"a", "b">>
        /\ owner[ObjOf(ctl, wkey[w])] = [Owner("abc", {"x"}) EXCEPT !.deleting = TRUE]

\* worker w logs a call of op in this step
Calls(w, op) ==
    /\ Len(calls'[w]) = Len(calls[w]) + 1
    /\ calls'[w][Len(calls'[w])].op = op

\* C24: the owner Update is issued only for an owner fetched with its
\* finalizer, and when accepted takes the finalizer from an owner that has
\* it; the owner Delete is issued only for an owner without deletion
\* timestamp, and when accepted marks an owner that was not deleting; an
\* owner that is not found is not written. So a retry after a partial
\* failure repeats no owner write that was accepted before.
C24_NoDoubleAct ==
    /\ [][\A w \in Workers :
            LET o == ObjOf(ctl, wkey[w])
            IN  /\ Calls(w, "OwnerUpdate") =>
                       /\ OwnerFinalizer \in loc[w].own.finalizers
                       /\ owner'[o] # owner[o] =>
                              /\ OwnerFinalizer \in owner[o].finalizers
                              /\ owner'[o].finalizers = owner[o].finalizers \ {OwnerFinalizer}
                /\ Calls(w, "OwnerDelete") =>
                       /\ ~loc[w].own.deleting
                       /\ owner'[o] # owner[o] => (~owner[o].deleting /\ owner'[o].deleting)
                /\ (Calls(w, "OwnerGet") /\ calls'[w][Len(calls'[w])].arg = 2) =>
                       (~owner[o].exists /\ pc'[w] = "update" /\ owner' = owner)]_vars
    /\ [](\A w \in Workers :
            (Issued(calls[w], "OwnerGet") /\ Result(calls[w], "OwnerGet") = 2) =>
                (~Issued(calls[w], "OwnerUpdate") /\ ~Issued(calls[w], "OwnerDelete")))

\* a retry after the owner lost its finalizer and was marked for deletion:
\* the owner is fetched and left alone, and finalizing is at the Update
C24_Witness ==
    \E w \in Workers :
        /\ pc[w] = "update"
        /\ loc[w].ws.directlyDeletable
        /\ loc[w].own = [Owner("abc", {"x"}) EXCEPT !.deleting = TRUE]
        /\ loc[w].own = owner[ObjOf(ctl, wkey[w])]
        /\ calls[w][Len(calls[w])] = Call("OwnerGet", 1)

\* C25: when the Update that persists the finalizer removal finds the
\* logical cluster gone, the reconcile returns nil and the key is forgotten
\* and not requeued.
C25_UpdateNotFoundIsSuccess ==
    \A w \in Workers :
        (/\ pc[w] = "done"
         /\ Issued(calls[w], "Update")
         /\ ~store[ObjOf(ctl, wkey[w])].exists
         /\ loc[w].err # OtherErr("error")) =>
            /\ loc[w].err = NilErr
            /\ calls[w][Len(calls[w])] = Call("Forget", 0)
            /\ ~Issued(calls[w], "AddRateLimited")

\* the owner's Get of worker w's reconcile returned not-found, and the
\* reconcile has returned
OwnerNotFound(w) ==
    /\ pc[w] \in {"requeue", "done"}
    /\ Issued(calls[w], "OwnerGet")
    /\ Result(calls[w], "OwnerGet") = 2

\* C26 as stated: after a not-found owner no owner Update or Delete is
\* issued, the logical cluster's Update is, and the reconcile returns nil.
C26_OwnerNotFoundReturnsSuccess ==
    \A w \in Workers :
        OwnerNotFound(w) =>
            /\ ~Issued(calls[w], "OwnerUpdate")
            /\ ~Issued(calls[w], "OwnerDelete")
            /\ Issued(calls[w], "Update")
            /\ loc[w].err = NilErr

\* C26: after a not-found owner no owner Update or Delete is issued and the
\* next call is the logical cluster's Update, whose result is the result of
\* the reconcile: nil when it is accepted, its error otherwise.
C26_OwnerNotFoundGoesOnToUpdate ==
    \A w \in Workers :
        OwnerNotFound(w) =>
            /\ ~Issued(calls[w], "OwnerUpdate")
            /\ ~Issued(calls[w], "OwnerDelete")
            /\ Issued(calls[w], "Update")
            /\ calls[w][Pos(calls[w], "OwnerGet") + 1].op = "Update"
            /\ loc[w].err = NilErr <=> Result(calls[w], "Update") = 1
            /\ loc[w].err \in {NilErr, OtherErr("conflict"), OtherErr("notfound"), OtherErr("error")}

\* the owner was not found and the Update stored the logical cluster
\* without its deletion finalizer
C26_Witness ==
    \E w \in Workers :
        /\ OwnerNotFound(w)
        /\ calls[w][Len(calls[w])] = Call("Update", 1)
        /\ loc[w].err = NilErr
        /\ loc[w].ws.ownerUID = "abc"
        /\ ~owner[ObjOf(ctl, wkey[w])].exists
        /\ ~HasDeletionFinalizer(store[ObjOf(ctl, wkey[w])])

\* the outcome logged by the step just taken by worker w
Answer(w) == calls'[w][Len(calls'[w])].arg

\* C27: an owner fetched with the matching UID gets an Update exactly when
\* it carries the owner-side finalizer; an accepted Update stores the owner
\* as it was with that one finalizer taken from the set (the owner is gone
\* when it was deleting and that was its last finalizer), a refused one
\* stores nothing; a reconcile issues at most one owner Update, right after
\* the Get.
C27_OwnerFinalizerRemoved ==
    /\ [][\A w \in Workers :
            LET o == ObjOf(ctl, wkey[w])
            IN  /\ (Calls(w, "OwnerGet") /\ Answer(w) = 1
                        /\ owner[o].uid = loc[w].ws.ownerUID) =>
                       /\ pc'[w] = "ownerUpdate" <=> OwnerFinalizer \in owner[o].finalizers
                       /\ pc'[w] \in {"ownerUpdate", "ownerDelete", "update"}
                       /\ owner' = owner
                /\ (Calls(w, "OwnerUpdate") /\ Answer(w) = 1) =>
                       /\ OwnerFinalizer \in owner[o].finalizers
                       /\ owner'[o] =
                              IF owner[o].deleting /\ owner[o].finalizers = {OwnerFinalizer}
                              THEN NoOwner
                              ELSE [owner[o] EXCEPT !.finalizers = @ \ {OwnerFinalizer}]
                /\ (Calls(w, "OwnerUpdate") /\ Answer(w) # 1) => owner' = owner]_vars
    /\ [](\A w \in Workers :
            /\ Count(calls[w], "OwnerUpdate") <= 1
            /\ Issued(calls[w], "OwnerUpdate") =>
                   calls[w][Pos(calls[w], "OwnerUpdate") - 1] = Call("OwnerGet", 1))

\* the owner's Update was accepted and the stored owner keeps its other
\* finalizer
C27_Witness ==
    \E w \in Workers :
        /\ calls[w] # <<>>
        /\ calls[w][Len(calls[w])] = Call("OwnerUpdate", 1)
        /\ owner[ObjOf(ctl, wkey[w])] = Owner("abc", {"x"})
        /\ loc[w].ws.ownerUID = "abc"

\* worker w's step leaves the finalizer step with an owner in hand: the Get
\* found the owner with the matching UID and without the finalizer, or the
\* owner's Update was accepted
FinalizerStepReturns(w) ==
    \/ /\ Calls(w, "OwnerGet") /\ Answer(w) = 1
       /\ loc'[w].own.uid = loc[w].ws.ownerUID
       /\ OwnerFinalizer \notin loc'[w].own.finalizers
    \/ Calls(w, "OwnerUpdate") /\ Answer(w) = 1

\* C28: when the finalizer step returns an owner, the owner Delete comes
\* next exactly when that owner has no deletion timestamp and the logical
\* cluster is directly deletable, and it is issued at no other point; the
\* Delete acts only on an owner with the UID of the owner reference and is
\* refused for another one; not-found ends with the logical cluster's Update
\* like an accepted Delete, any other error is returned.
C28_OwnerDelete ==
    /\ [][\A w \in Workers :
            LET o == ObjOf(ctl, wkey[w])
                ws == loc[w].ws
            IN  /\ FinalizerStepReturns(w) =>
                       /\ pc'[w] = "ownerDelete" <=>
                              (~loc'[w].own.deleting /\ ws.directlyDeletable)
                       /\ pc'[w] \in {"ownerDelete", "update"}
                /\ (pc'[w] = "ownerDelete" /\ pc[w] # "ownerDelete") => FinalizerStepReturns(w)
                /\ Calls(w, "OwnerDelete") <=> (pc[w] = "ownerDelete" /\ pc'[w] # "ownerDelete")
                /\ Calls(w, "OwnerDelete") =>
                       /\ (owner[o].exists /\ owner[o].uid # ws.ownerUID) => Answer(w) = 0
                       /\ Answer(w) = 1 =>
                              /\ owner[o].exists /\ owner[o].uid = ws.ownerUID
                              /\ owner'[o] \in {NoOwner, [owner[o] EXCEPT !.deleting = TRUE]}
                              /\ pc'[w] = "update"
                       /\ Answer(w) = 2 =>
                              (~owner[o].exists /\ owner' = owner /\ pc'[w] = "update")
                       /\ Answer(w) = 0 =>
                              /\ owner' = owner
                              /\ pc'[w] = "requeue"
                              /\ loc'[w].err = OtherErr("ownerDelete")]_vars
    /\ [](\A w \in Workers :
            Issued(calls[w], "OwnerDelete") =>
                /\ Before(calls[w], "OwnerGet", "OwnerDelete")
                /\ Result(calls[w], "OwnerGet") = 1
                /\ loc[w].own.uid = loc[w].ws.ownerUID
                /\ ~loc[w].own.deleting
                /\ loc[w].ws.directlyDeletable
                /\ Count(calls[w], "OwnerDelete") = 1)

\* the owner's Delete was accepted: the owner of the directly deletable
\* logical cluster is marked for deletion
C28_Witness ==
    \E w \in Workers :
        /\ calls[w] # <<>>
        /\ calls[w][Len(calls[w])] = Call("OwnerDelete", 1)
        /\ loc[w].ws.directlyDeletable
        /\ owner[ObjOf(ctl, wkey[w])].deleting
        /\ owner[ObjOf(ctl, wkey[w])].uid = loc[w].ws.ownerUID

\* the calls finalizing makes after the RBAC cleanup
LaterCalls == {"OwnerGet", "OwnerUpdate", "OwnerDelete", "Update"}

\* C29: in a reconcile the DeleteCollection of the cluster roles comes
\* before that of the cluster role bindings, and both come before every call
\* to the owner and before the logical cluster's Update, having returned nil
\* or not-found; a not-found of either goes on like a nil, any other error
\* is returned.
C29_RBACCleanupFirst ==
    /\ [](\A w \in Workers :
            /\ Issued(calls[w], "DeleteBindings") =>
                   /\ Before(calls[w], "DeleteRoles", "DeleteBindings")
                   /\ Result(calls[w], "DeleteRoles") \in {1, 2}
            /\ \A op \in LaterCalls :
                   Issued(calls[w], op) =>
                       /\ Before(calls[w], "DeleteBindings", op)
                       /\ Result(calls[w], "DeleteBindings") \in {1, 2})
    /\ [][\A w \in Workers :
            /\ Calls(w, "DeleteRoles") =>
                   /\ Answer(w) \in {1, 2} => (pc'[w] = "bindings" /\ loc' = loc)
                   /\ Answer(w) = 0 =>
                          (pc'[w] = "requeue" /\ loc'[w].err = OtherErr("clusterroles"))
            /\ Calls(w, "DeleteBindings") =>
                   /\ Answer(w) \in {1, 2} =>
                          /\ pc'[w] = IF loc[w].ws.ownerUID # "" THEN "ownerGet" ELSE "update"
                          /\ loc' = loc
                   /\ Answer(w) = 0 =>
                          (pc'[w] = "requeue" /\ loc'[w].err = OtherErr("clusterrolebindings"))
            /\ (pc[w] = "roles" /\ pc'[w] # "roles") => Calls(w, "DeleteRoles")
            /\ (pc[w] = "bindings" /\ pc'[w] # "bindings") => Calls(w, "DeleteBindings")]_vars

\* both DeleteCollections answered not-found, the owner was called and the
\* Update stored the logical cluster
C29_Witness ==
    \E w \in Workers :
        /\ Len(calls[w]) >= 4
        /\ calls[w][Len(calls[w])] = Call("Update", 1)
        /\ Issued(calls[w], "OwnerGet")
        /\ Result(calls[w], "DeleteRoles") = 2
        /\ Result(calls[w], "DeleteBindings") = 2
        /\ loc[w].err = NilErr

-----------------------------------------------------------------------------
(* A key whose logical cluster is gone (claim C30) *)

\* worker w of the deletion controller holds a well-formed key whose
\* logical cluster the lister does not have
ListerNotFound(w) ==
    /\ ctl = "lcd"
    /\ InFlight(w)
    /\ SplitMetaClusterNamespaceKey(wkey[w]).ok
    /\ ~cache[ObjOf(ctl, wkey[w])].exists

\* C30: when the lister does not have the logical cluster of the key, the
\* reconcile returns nil having made no call at all (no deleter, no patch,
\* no update, no call to the owner) and having changed no object; the worker
\* then calls Forget and neither Add, AddAfter nor AddRateLimited, so the
\* queue holds the key no more than before.
C30_NotFoundIsSuccess ==
    [][\A w \in Workers :
         /\ (ListerNotFound(w) /\ pc[w] = "process" /\ pc'[w] # "process") =>
                /\ pc'[w] = "requeue"
                /\ loc'[w].err = NilErr
                /\ calls'[w] = <<Call("Get", 0)>>
                /\ store' = store /\ owner' = owner
         /\ (ctl = "lcd" /\ pc[w] = "requeue" /\ loc[w].err = NilErr
                 /\ calls[w] = <<Call("Get", 0)>> /\ pc'[w] # "requeue") =>
                /\ calls'[w] = <<Call("Get", 0), Call("Forget", 0)>>
                /\ q'.queue = q.queue
                /\ q'.waiting = q.waiting
                /\ q'.dirty = q.dirty
                /\ q'.failures[wkey[w]] = 0
                /\ store' = store /\ owner' = owner]_vars

\* a key of a logical cluster that is gone was taken, reconciled and
\* forgotten
C30_Witness ==
    \E w \in Workers :
        /\ ListerNotFound(w)
        /\ ~store[ObjOf(ctl, wkey[w])].exists
        /\ pc[w] = "done"
        /\ calls[w] = <<Call("Get", 0), Call("Forget", 0)>>
        /\ loc[w].err = NilErr

-----------------------------------------------------------------------------
(* A logical cluster that is not deleting (claim C31) *)

\* a logical cluster that was deleted is created again under the same name,
\* not deleting, with a resourceVersion no earlier object had
EnvRecreate(o) ==
    /\ ctl = "lcd"
    /\ ~store[o].exists
    /\ store' = [store EXCEPT ![o] =
                   [LC(FALSE, <<DeletionFinalizer>>, "", FALSE) EXCEPT !.rv = 0]]
    /\ UNCHANGED <<part, errs, front, ctl, numThreads, q, pc, wkey, loc, calls, dones, phase, cache, owner, deleter, stopped>>

\* two deleting logical clusters without owner whose content is gone; the
\* informer has not delivered them yet
InitRecreate ==
    /\ ctl = "lcd"
    /\ numThreads = 1
    /\ q = EmptyQueue
    /\ pc = [w \in Workers |-> "unstarted"]
    /\ wkey = [w \in Workers |-> <<>>]
    /\ loc = [w \in Workers |-> EmptyLoc]
    /\ calls = [w \in Workers |-> <<>>]
    /\ dones = [w \in Workers |-> 0]
    /\ phase = "new"
    /\ store = [o \in Objs |-> IF o = "oBad" THEN NoLC ELSE PlainLC]
    /\ owner = [o \in Objs |-> NoOwner]
    /\ cache = [o \in Objs |-> NoLC]
    /\ deleter = [o \in Objs |-> NilErr]
    /\ stopped = {}
    /\ part = NoPartition
    /\ errs = 0
    /\ front = NoClient

NextRecreate ==
    \/ Start
    \/ \E o \in Objs : InformerDeliver(o)
    \/ \E o \in Objs : LcdNotify(o, OtherObject)
    \/ \E o \in Objs : EnvRecreate(o)
    \/ \E w \in Workers :
         \/ Get(w)
         \/ process(w)
         \/ Delete(w)
         \/ DeleteRoles(w)
         \/ DeleteBindings(w)
         \/ UpdateLogicalCluster(w)
         \/ Requeue(w)
         \/ Done(w)

SpecRecreate == InitRecreate /\ [][NextRecreate]_vars

\* worker w of the deletion controller holds a well-formed key whose
\* logical cluster the lister has without deletion timestamp
NotDeleting(w) ==
    /\ ctl = "lcd"
    /\ InFlight(w)
    /\ SplitMetaClusterNamespaceKey(wkey[w]).ok
    /\ cache[ObjOf(ctl, wkey[w])].exists
    /\ ~cache[ObjOf(ctl, wkey[w])].deleting

\* C31: when the lister has the logical cluster of the key without deletion
\* timestamp and hands it out, the reconcile returns nil having made no call
\* at all (no deleter, no Patch, no Update, no DeleteCollection, no call to
\* the owner) and having changed no stored object.
C31_NotDeletingUntouched ==
    [][\A w \in Workers :
         (/\ NotDeleting(w)
          /\ pc[w] = "process" /\ pc'[w] # "process"
          /\ loc'[w].err # OtherErr("lister")) =>
             /\ pc'[w] = "requeue"
             /\ loc'[w].err = NilErr
             /\ calls'[w] = <<Call("Get", 0)>>
             /\ store' = store /\ owner' = owner]_vars

\* the key of a logical cluster that was deleted and created again was
\* reconciled: the new object is as it was created
C31_Witness ==
    \E w \in Workers :
        /\ NotDeleting(w)
        /\ pc[w] = "requeue"
        /\ calls[w] = <<Call("Get", 0)>>
        /\ loc[w].err = NilErr
        /\ store[ObjOf(ctl, wkey[w])] = cache[ObjOf(ctl, wkey[w])]

-----------------------------------------------------------------------------
(* Conflicts (claim C32) *)

\* the reconcile of worker w has returned the conflict of its last write
Conflict(w) ==
    /\ pc[w] \in {"requeue", "done"}
    /\ loc[w].err = OtherErr("conflict")

\* C32: a write of a stale resourceVersion, by the condition Patch or by the
\* finalizer-removing Update, stores nothing and ends the reconcile with the
\* conflict as its error; the worker then calls AddRateLimited and not
\* Forget, the key's failure count is not reset, the key waits for its
\* backoff unless the queue is shut down, and the worker goes back to take
\* the next key.
C32_ConflictRetried ==
    /\ [][\A w \in Workers :
            LET o == ObjOf(ctl, wkey[w])
            IN  /\ (pc[w] = "patch" /\ Calls(w, "Patch") /\ store[o].exists
                        /\ store[o].rv # loc[w].old.rv) =>
                       (Answer(w) = 0 /\ store' = store /\ pc'[w] = "requeue"
                        /\ loc'[w].err \in {OtherErr("conflict"), OtherErr("error")})
                /\ (pc[w] = "update" /\ Calls(w, "Update") /\ store[o].exists
                        /\ store[o].rv # loc[w].ws.rv) =>
                       (Answer(w) = 0 /\ store' = store /\ pc'[w] = "requeue"
                        /\ loc'[w].err \in {OtherErr("conflict"), OtherErr("error")})
                /\ (Conflict(w) /\ pc[w] = "requeue" /\ pc'[w] # "requeue") =>
                       /\ pc'[w] = "done"
                       /\ calls'[w] = Append(calls[w], Call("AddRateLimited", 0))
                       /\ q'.failures[wkey[w]] >= 1
                       /\ q.shuttingDown \/ wkey[w] \in q'.waiting
                /\ (Conflict(w) /\ pc[w] = "done" /\ pc'[w] # "done") => pc'[w] = "idle"]_vars
    /\ [](\A w \in Workers :
            Conflict(w) =>
                /\ ~Issued(calls[w], "Forget")
                /\ ~Issued(calls[w], "AddAfter")
                /\ \/ Issued(calls[w], "Patch") /\ Result(calls[w], "Patch") = 0
                   \/ Issued(calls[w], "Update") /\ Result(calls[w], "Update") = 0)

\* the Update of a stale copy was refused with a conflict and the key was
\* requeued with backoff
C32_Witness ==
    \E w \in Workers :
        /\ Conflict(w)
        /\ pc[w] = "done"
        /\ Issued(calls[w], "Update")
        /\ calls[w][Len(calls[w])] = Call("AddRateLimited", 0)
        /\ wkey[w] \in q.waiting

-----------------------------------------------------------------------------
(* A deleting logical cluster without the deletion finalizer (claim C33) *)

\* the writes and remote calls of finalizing
FinalizingCalls == {"DeleteRoles", "DeleteBindings", "Update"} \cup LaterCalls

\* C33: when the deleter succeeds for a copy without the deletion finalizer,
\* the reconcile returns nil with nothing in its call log but the Get of the
\* key and the deleter call, and no stored logical cluster or owner has
\* changed: an owner that carries its finalizer keeps it.
C33_NoFinalizerNoFinalizing ==
    [][\A w \in Workers :
         (/\ pc[w] = "delete"
          /\ Calls(w, "Delete") /\ Answer(w) = 1
          /\ ~HasDeletionFinalizer(loc[w].ws)) =>
             /\ pc'[w] = "requeue"
             /\ loc'[w].err = NilErr
             /\ calls'[w] = <<Call("Get", 0), Call("Delete", 1)>>
             /\ \A op \in FinalizingCalls : ~Issued(calls'[w], op)
             /\ store' = store /\ owner' = owner]_vars

\* a reconcile of a deleting logical cluster with finalizers [a] has
\* returned after the deleter call, and its owner still carries the
\* owner-side finalizer
C33_Witness ==
    \E w \in Workers :
        /\ pc[w] = "requeue"
        /\ calls[w] = <<Call("Get", 0), Call("Delete", 1)>>
        /\ loc[w].err = NilErr
        /\ loc[w].ws.finalizers = <<"a">>
        /\ loc[w].ws.ownerUID = "abc"
        /\ owner[ObjOf(ctl, wkey[w])] = Owner("abc", {OwnerFinalizer, "x"})

-----------------------------------------------------------------------------
(* The preconditions of the condition patch (claim C34) *)

\* C34: the condition patch is checked against the resourceVersion of the
\* logical cluster as process read it from the lister: it is accepted only
\* when the stored object still has that resourceVersion, and then changes
\* the conditions of exactly that object; when the stored object has moved
\* on, or has other conditions than the ones read, the patch is refused with
\* a conflict; a refused patch stores nothing.
C34_PatchPreconditions ==
    [][\A w \in Workers :
         LET o == ObjOf(ctl, wkey[w])
             old == loc[w].old
         IN  Calls(w, "Patch") =>
                 /\ pc[w] = "patch"
                 /\ Answer(w) = 1 =>
                        /\ store[o].exists /\ store[o].rv = old.rv
                        /\ store[o].conditions = old.conditions
                        /\ store'[o] = [store[o] EXCEPT !.conditions = loc[w].ws.conditions,
                                                        !.rv = @ + 1]
                        /\ \A x \in Objs \ {o} : store'[x] = store[x]
                 /\ (store[o].exists /\ (store[o].rv # old.rv
                                         \/ store[o].conditions # old.conditions)) =>
                        /\ Answer(w) = 0
                        /\ loc'[w].err \in {OtherErr("conflict"), OtherErr("error")}
                 /\ Answer(w) # 1 => store' = store]_vars

\* a patch computed from a stale read was refused with a conflict: the
\* stored conditions, written since the read, are as they were
C34_Witness ==
    \E w \in Workers :
        /\ Conflict(w)
        /\ calls[w][Len(calls[w])] = Call("Patch", 0)
        /\ store[ObjOf(ctl, wkey[w])].conditions # loc[w].old.conditions
        /\ store[ObjOf(ctl, wkey[w])].conditions # loc[w].ws.conditions
        /\ store[ObjOf(ctl, wkey[w])].rv > loc[w].old.rv

-----------------------------------------------------------------------------
(* The writes of a reconcile whose deleter failed (claim C35) *)

\* the deleter call of worker w's reconcile returned an error
DeleterFailed(w) == Issued(calls[w], "Delete") /\ Result(calls[w], "Delete") = 0

\* C35: a reconcile whose deleter call returned an error issues at most one
\* Patch and none of the calls of finalizing; its steps leave every owner
\* alone and change a stored logical cluster only by an accepted Patch,
\* which sets the conditions (and with them the resourceVersion) and leaves
\* finalizers, deletion timestamp, owner reference and DirectlyDeletable as
\* they are. A reconcile whose deleter call succeeded issues no Patch.
C35_OnlyTheConditionPatch ==
    /\ [](\A w \in Workers :
            /\ DeleterFailed(w) =>
                   /\ Count(calls[w], "Patch") <= 1
                   /\ \A op \in FinalizingCalls : ~Issued(calls[w], op)
            /\ (Issued(calls[w], "Delete") /\ Result(calls[w], "Delete") = 1) =>
                   ~Issued(calls[w], "Patch"))
    /\ [][\A w \in Workers :
            LET o == ObjOf(ctl, wkey[w])
            IN  (DeleterFailed(w) /\ pc'[w] # pc[w]) =>
                    /\ owner' = owner
                    /\ store' # store => (Calls(w, "Patch") /\ Answer(w) = 1)
                    /\ \A x \in Objs \ {o} : store'[x] = store[x]
                    /\ store'[o].exists = store[o].exists
                    /\ store'[o].finalizers = store[o].finalizers
                    /\ store'[o].deleting = store[o].deleting
                    /\ store'[o].ownerUID = store[o].ownerUID
                    /\ store'[o].directlyDeletable = store[o].directlyDeletable]_vars

\* the deleter failed and the Patch stored the new conditions on a logical
\* cluster that keeps its finalizers and its owner reference
C35_Witness ==
    \E w \in Workers :
        /\ pc[w] = "requeue"
        /\ calls[w] = <<Call("Get", 0), Call("Delete", 0), Call("Patch", 1)>>
        /\ store[ObjOf(ctl, wkey[w])].conditions = loc[w].ws.conditions
        /\ store[ObjOf(ctl, wkey[w])].conditions # loc[w].old.conditions
        /\ store[ObjOf(ctl, wkey[w])].finalizers = <<"a", DeletionFinalizer, "b">>
        /\ store[ObjOf(ctl, wkey[w])].ownerUID = "abc"

-----------------------------------------------------------------------------
(* enqueue of the three controllers (claim C36) *)

\* the three controllers with their worker pools, their handlers calling
\* enqueue with objects and with things that are no objects; the content of
\* the logical cluster o1 does not drain, so no reconcile gets to finalize
NextEnqueue ==
    \/ Start
    \/ StartReturn
    \/ \E x \in Notified : HandlerEnqueue(x)
    \/ \E k \in Keys : TimerFire(k)
    \/ \E w \in Workers :
         \/ Get(w)
         \/ MonitorProcess(w)
         \/ EndpointsProcess(w)
         \/ process(w)
         \/ Delete(w)
         \/ patchCondition(w)
         \/ Requeue(w)
         \/ Done(w)

SpecEnqueue == InitPool /\ [][NextEnqueue]_vars

\* the keys the queue holds in any of its sets
Held(qq) == {qq.queue[i] : i \in 1..Len(qq.queue)} \cup qq.dirty \cup qq.processing \cup qq.waiting

\* C36: a call of enqueue whose key function fails reports one error and
\* leaves the queue as it is; a call whose key function returns a key
\* reports nothing and does what Add of that key does: the key is dirty
\* afterwards (unless the queue is shut down), it is appended to the ready
\* list when it was neither dirty nor in flight, and no other key enters
\* the queue. No worker is disturbed by either.
C36_EnqueueOrReport ==
    [][\A x \in Notified :
         HandlerEnqueue(x) =>
             LET k == KeyFunc(ctl, x)
             IN  /\ x \notin Objs => (q' = q /\ errs' = errs + 1)
                 /\ x \in Objs =>
                        /\ errs' = errs
                        /\ Held(q') \subseteq Held(q) \cup {k}
                        /\ ~q.shuttingDown => k \in q'.dirty
                        /\ q'.queue = IF q.shuttingDown \/ k \in q.dirty \/ k \in q.processing
                                      THEN q.queue ELSE Append(q.queue, k)
                        /\ q'.processing = q.processing /\ q'.waiting = q.waiting
                        /\ q'.failures = q.failures
                 /\ pc' = pc /\ calls' = calls]_vars

\* an error of the key function has been reported while a key added by
\* enqueue stands in the queue
C36_Witness ==
    /\ errs >= 1
    /\ q.queue = <<KeyFunc(ctl, "o2")>>
    /\ q.dirty = {KeyFunc(ctl, "o2")}

-----------------------------------------------------------------------------
(* The filter of the deletion controller's handler (claim C37) *)

\* C37: an add or update notification of the deletion controller's handler
\* does Add of the object's key exactly when the new object is a logical
\* cluster with a deletion timestamp; a new object of another type, or a
\* logical cluster without deletion timestamp, leaves the queue as it is.
C37_FilteredEnqueue ==
    [][\A o \in Objs : \A new \in {store[o], OtherObject} :
         (LcdNotify(o, new) /\ new.exists) =>
             /\ (new # OtherObject /\ new.deleting) => q' = QAdd(q, KeyFunc(ctl, o))
             /\ (new = OtherObject \/ ~new.deleting) => q' = q]_vars

\* the add of a logical cluster created again without deletion timestamp
\* has been delivered, and the queue holds no key
C37_Witness ==
    /\ phase = "running"
    /\ cache["o1"].exists /\ ~cache["o1"].deleting
    /\ cache["o1"] = store["o1"]
    /\ Held(q) = {}
    /\ \A w \in Workers : ~InFlight(w)

-----------------------------------------------------------------------------
(* The queue's de-duplication (claim C38) *)

\* C38: the ready list holds no key twice, no key is at once in the ready
\* list and in flight, and every ready key is dirty; an enqueue of a key
\* that stands in the ready list leaves the whole queue as it is.
C38_QueueDeduplicates ==
    /\ [](/\ \A i, j \in 1..Len(q.queue) : q.queue[i] = q.queue[j] => i = j
          /\ \A k \in q.processing : ~InQueue(q, k)
          /\ \A i \in 1..Len(q.queue) : q.queue[i] \in q.dirty)
    /\ [][\A o \in Objs :
            (HandlerEnqueue(o) /\ InQueue(q, KeyFunc(ctl, o))) => q' = q]_vars

\* two keys stand in the ready list while a third is in flight and marked
\* dirty again
C38_Witness ==
    /\ Len(q.queue) = 2
    /\ \E k \in q.processing : k \in q.dirty
    /\ \E w \in Workers : InFlight(w) /\ wkey[w] \in q.dirty

-----------------------------------------------------------------------------
(* The front-proxy client (claim C39) *)

\* the end-to-end scenario with a resolver whose answer changes
NextFront ==
    \/ NextScenario
    \/ \E u \in URLs : EnvResolve(u)

SpecFront == InitScenario /\ [][NextFront]_vars

\* C39: Start either sets the client, bound to the URL the resolver returns
\* at that step, and launches the workers, or, when the client cannot be
\* built, leaves the client unset, launches no worker and shuts the queue
\* down; a client once set is never set again, whatever the resolver
\* returns later; and no worker that was launched, so no reconcile, sees the
\* client unset.
C39_ClientBeforeWorkers ==
    /\ [][/\ (phase = "new" /\ phase' # "new") =>
               \/ /\ phase' = "running"
                  /\ front'.client = front.url
                  /\ \A w \in Started : pc'[w] = "idle"
                  /\ q' = q
               \/ /\ phase' = "returned"
                  /\ front'.client = ""
                  /\ \A w \in Workers : pc'[w] = "unstarted"
                  /\ q'.shuttingDown
          /\ front.client # "" => front'.client = front.client]_vars
    /\ [](\A w \in Workers : pc[w] # "unstarted" => front.client \in URLs)

\* a reconcile is calling the owner's shard through a client bound to the
\* URL the resolver returned at Start, and the resolver has moved on
C39_Witness ==
    \E w \in Workers :
        /\ pc[w] = "ownerGet"
        /\ front.client = "u2"
        /\ front.url = "u1"

====
